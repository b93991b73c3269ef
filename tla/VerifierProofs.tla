---------------------------- MODULE VerifierProofs ----------------------------
(***************************************************************************)
(* Proofs about run_verifier, for any number of descendants.  The host has *)
(* no result before it returns; it kills nothing before the timeout or a   *)
(* failure; and a group that was killed has nobody left to fork.           *)
(*                                                                         *)
(* And about the check that runs it: what run_verifier guarantees holds    *)
(* there, and a content lock is a snapshot, for any number of files and    *)
(* edits.  A file that still has the signature it had before it was hashed *)
(* has the content that was hashed; so when the second walk finds the names*)
(* again, the directory contains all of the lock that is still intact, and *)
(* the looks that follow only find out whether that was all.               *)
(***************************************************************************)
EXTENDS RuntimeCheck, TLAPS

(* There is no verifier before it is spawned, and nothing is killed and    *)
(* nothing has gone wrong while the first communicate waits.               *)
Untouched ==
  /\ pc = "start" => leader = "none"
  /\ pc \in {"start", "wait"} => leader # "killed" /\ ~treeKilled /\ trouble = {}

(* A result is what run_verifier returned.                                 *)
NoResultYet == pc # "done" => result = "none"

(* A killed group is dead and stays so.                                    *)
KilledIsDead ==
  treeKilled => leader # "running" /\ \A d \in Descendant : ~Alive(d)

IInv ==
  /\ TypeOK
  /\ Untouched
  /\ NoResultYet
  /\ KilledIsDead
  /\ VerdictIsItsOwnExit
  /\ NoLeaderLeft

-----------------------------------------------------------------------------
(* Nothing has been spawned.                                               *)
LEMMA InitIInv == Init => IInv
BY DEF Init, IInv, TypeOK, PC, Leader, Child, Untouched, NoResultYet,
   KilledIsDead, VerdictIsItsOwnExit, NoLeaderLeft

(* The processes of the group never touch the host, and only a live group  *)
(* does anything.                                                          *)
LEMMA GroupIInv == IInv /\ Group => IInv'
<1> SUFFICES ASSUME IInv, Group PROVE IInv'
  OBVIOUS
<1> USE DEF IInv, Untouched, NoResultYet, KilledIsDead, VerdictIsItsOwnExit,
            NoLeaderLeft
<1>1. CASE LeaderExits
  <2>1. TypeOK'
    BY <1>1 DEF LeaderExits, TypeOK, Leader
  <2> QED
    BY <1>1, <2>1 DEF LeaderExits, Alive
<1>2. ASSUME NEW d \in Descendant, Fork(d) PROVE IInv'
  <2>1. TypeOK'
    BY <1>2 DEF Fork, TypeOK, Child
  <2>2. treeKilled => FALSE
    BY <1>2 DEF Fork, Alive
  <2>3. UNCHANGED <<pc, leader, result, treeKilled, trouble>>
    BY <1>2 DEF Fork
  <2> QED
    BY <2>1, <2>2, <2>3
<1>3. ASSUME NEW d \in Descendant, ClosePipe(d) PROVE IInv'
  <2>1. TypeOK'
    BY <1>3 DEF ClosePipe, TypeOK, Child
  <2>2. treeKilled => FALSE
    BY <1>3 DEF ClosePipe, Alive
  <2> QED
    BY <1>3, <2>1, <2>2 DEF ClosePipe
<1>4. ASSUME NEW d \in Descendant, ChildExits(d) PROVE IInv'
  <2>1. TypeOK'
    BY <1>4 DEF ChildExits, TypeOK, Child
  <2>2. treeKilled => FALSE
    BY <1>4 DEF ChildExits
  <2> QED
    BY <1>4, <2>1, <2>2 DEF ChildExits
<1> QED
  BY <1>1, <1>2, <1>3, <1>4 DEF Group

(* Each step of the host.                                                  *)
LEMMA HostIInv == IInv /\ Host => IInv'
<1> SUFFICES ASSUME IInv, Host PROVE IInv'
  OBVIOUS
<1> USE DEF IInv, TypeOK, PC, Leader, Status, Untouched, NoResultYet,
            KilledIsDead, VerdictIsItsOwnExit, NoLeaderLeft, Return, Alive,
            Trouble
<1>1. CASE Spawn
  BY <1>1 DEF Spawn
<1>2. CASE CommunicateReturns
  BY <1>2 DEF CommunicateReturns, OutputComplete, LeaderExited, Verdict
<1>3. CASE TimeoutExpires
  BY <1>3 DEF TimeoutExpires
<1>4. CASE CommunicateFails
  BY <1>4 DEF CommunicateFails
<1>5. CASE CheckLeader
  BY <1>5 DEF CheckLeader, LeaderExited
<1>6. CASE PollLeader
  BY <1>6 DEF PollLeader, LeaderExited, AfterKill
<1>7. CASE KillGroup
  <2>1. /\ child' \in [Descendant -> Child]
        /\ \A d \in Descendant : child'[d] \notin {"piped", "quiet"}
    BY <1>7 DEF KillGroup, KilledGroup, Child
  <2>2. leader' \in Leader /\ leader' # "running"
    BY <1>7 DEF KillGroup, KilledLeader
  <2>3. pc' \in {"drain", "last_wait"}
    BY <1>7 DEF KillGroup, AfterKill
  <2>4. result' = "none" /\ treeKilled' = TRUE /\ trouble' = trouble
    BY <1>7 DEF KillGroup
  <2> QED
    BY <2>1, <2>2, <2>3, <2>4
<1>8. CASE KillGroupFails
  BY <1>8 DEF KillGroupFails
<1>9. CASE Drain
  BY <1>9 DEF Drain, OutputComplete, LeaderExited
<1>10. CASE Recover
  BY <1>10 DEF Recover, LeaderExited
<1>11. CASE LastWait
  BY <1>11 DEF LastWait, OutputComplete, LeaderExited
<1> QED
  BY <1>1, <1>2, <1>3, <1>4, <1>5, <1>6, <1>7, <1>8, <1>9, <1>10, <1>11
     DEF Host

(* An interrupt ends the wait and touches nobody.                          *)
LEMMA InterruptIInv == IInv /\ Interrupted => IInv'
BY DEF IInv, TypeOK, PC, Trouble, Untouched, NoResultYet, KilledIsDead, Alive,
   VerdictIsItsOwnExit, NoLeaderLeft, Interrupted

(* The invariant holds in every reachable state.                           *)
LEMMA IInvHolds == Spec => []IInv
<1>1. IInv /\ UNCHANGED vars => IInv'
  BY DEF vars, IInv, TypeOK, Untouched, NoResultYet, KilledIsDead, Alive,
         VerdictIsItsOwnExit, NoLeaderLeft
<1>2. IInv /\ [Next]_vars => IInv'
  BY <1>1, GroupIInv, HostIInv, InterruptIInv DEF Next
<1> QED
  BY <1>2, InitIInv, PTL DEF Spec

(* The host, the group and the result keep their types.                    *)
THEOREM TypeCorrect == Spec => []TypeOK
<1>1. IInv => TypeOK
  BY DEF IInv
<1> QED
  BY <1>1, IInvHolds, PTL

(* A verdict is the verifier's own exit, complete before the timeout       *)
(* expired, however the two race.                                          *)
THEOREM VerdictIsOwn == Spec => []VerdictIsItsOwnExit
<1>1. IInv => VerdictIsItsOwnExit
  BY DEF IInv
<1> QED
  BY <1>1, IInvHolds, PTL

(* A group the timeout had killed is dead when TIMEOUT is reported.        *)
THEOREM KilledTreeDead == Spec => []KilledTreeIsDead
<1>1. IInv => KilledTreeIsDead
  BY DEF IInv, KilledIsDead, KilledTreeIsDead
<1> QED
  BY <1>1, IInvHolds, PTL

(* The verifier process does not outlive run_verifier's result; only a     *)
(* denied kill or an interrupt leaves it running.                          *)
THEOREM LeaderIsReaped == Spec => []NoLeaderLeft
<1>1. IInv => NoLeaderLeft
  BY DEF IInv
<1> QED
  BY <1>1, IInvHolds, PTL

-----------------------------------------------------------------------------
(* The check that runs the verifier.                                       *)

(* A step of the check is a step of run_verifier or leaves it alone.       *)
LEMMA CheckStepImplements == [CheckNext]_checkVars => [Next]_vars
<1> SUFFICES ASSUME [CheckNext]_checkVars PROVE [Next]_vars
  OBVIOUS
<1>1. CASE UNCHANGED checkVars
  BY <1>1 DEF checkVars, verifierVars
<1>2. CASE RunSample
  BY <1>2 DEF RunSample, Next
<1>3. CASE GroupRuns \/ InterruptSample
  BY <1>3 DEF GroupRuns, InterruptSample, Next
<1>4. CASE UNCHANGED verifierVars
  BY <1>4 DEF verifierVars
<1> QED
  <2>1. CASE Edit
    BY <2>1, <1>4 DEF Edit
  <2>2. CASE Checker
    BY <2>2, <1>2, <1>4 DEF Checker, WalkLock, VerifyLock, StatRuntime,
       ReadRuntime, Version, ReadRecords, JudgeSample
  <2> QED
    BY <2>1, <2>2, <1>1, <1>3 DEF CheckNext

(* The check runs run_verifier as it is: every safety property of Verifier *)
(* holds of the sample's verifier.                                         *)
THEOREM CheckRunsVerifier == CheckSpec => Init /\ [][Next]_vars
<1>1. CheckInit => Init
  BY DEF CheckInit
<1> QED
  BY <1>1, CheckStepImplements, PTL DEF CheckSpec

-----------------------------------------------------------------------------
(* The content lock.                                                       *)

Partial(T) == UNION {[S -> T] : S \in SUBSET File}

Stage == {"idle", "sign", "hash", "read", "recheck", "resign", "restat",
          "relook", "walked"}

Later == {"resign", "restat", "relook", "walked"}

TreeTypes ==
  /\ tree \in Partial([content : Content, stamp : Nat])
  /\ folder \in Nat
  /\ history \in Seq(Partial(Content))
  /\ blurred \in BOOLEAN

WalkTypes ==
  /\ walk \in [stage : Stage, began : Nat, names : SUBSET File, folder : Nat,
               stamps : Partial(Nat), digest : Partial(Content \cup {Unread}),
               left : SUBSET File, at : File \cup {Unread}]
  /\ DOMAIN walk.stamps = walk.names
  /\ DOMAIN walk.digest = walk.names
  /\ walk.left \subseteq walk.names
  /\ walk.stage = "sign" => walk.left = walk.names
  /\ walk.stage \in {"read", "recheck"} => walk.at \in walk.left

(* Signatures are older than the next edit, and the history is up to date. *)
Dated ==
  /\ Len(history) > 0
  /\ history[Len(history)] = Contents(tree)
  /\ \A f \in DOMAIN tree : tree[f].stamp < Len(history)
  /\ \A f \in walk.names : walk.stamps[f] < Len(history)
  /\ walk.began <= Len(history)

Hashed(f) ==
  \/ walk.stage \in Later
  \/ walk.stage \in {"hash", "read", "recheck"} /\ f \notin walk.left
  \/ walk.stage = "recheck" /\ f = walk.at

(* What is intact still has the content that was hashed.                   *)
Faithful ==
  \A f \in walk.names :
    Hashed(f) /\ Intact(f) => tree[f].content = walk.digest[f]

Checked(f) ==
  \/ walk.stage \in {"relook", "walked"}
  \/ walk.stage = "restat" /\ f \notin walk.left

(* At moment i the directory had the names of the walk, and the content of *)
(* every file that is intact or has been found to be.                      *)
Moment(i) ==
  /\ i \in walk.began .. Len(history)
  /\ i > 0
  /\ DOMAIN history[i] = walk.names
  /\ \A f \in walk.names :
       Checked(f) \/ Intact(f) => history[i][f] = walk.digest[f]

HasMoment == walk.stage \in Later => \E i \in Nat : Moment(i)

LockInv ==
  /\ TreeTypes
  /\ WalkTypes
  /\ Dated
  /\ ~blurred => Faithful /\ HasMoment

USE DEF Stage, Later

(* A function on some of the files.                                        *)
LEMMA PartialIntro ==
  ASSUME NEW T, NEW S \in SUBSET File, NEW g \in [S -> T]
  PROVE  g \in Partial(T)
BY DEF Partial

(* And what one such function is.                                          *)
LEMMA PartialElim ==
  ASSUME NEW T, NEW g \in Partial(T)
  PROVE  /\ DOMAIN g \subseteq File
         /\ g \in [DOMAIN g -> T]
BY DEF Partial

Entry == [content : Content, stamp : Nat]

(* The directory's contents are a function on its files.                   *)
LEMMA ContentsType ==
  ASSUME NEW t \in Partial(Entry)
  PROVE  /\ Contents(t) \in Partial(Content)
         /\ DOMAIN Contents(t) = DOMAIN t
         /\ \A f \in DOMAIN t : Contents(t)[f] = t[f].content
<1>1. DOMAIN t \subseteq File /\ t \in [DOMAIN t -> Entry]
  BY PartialElim
<1>2. Contents(t) \in [DOMAIN t -> Content]
  BY <1>1 DEF Contents, Entry
<1> QED
  BY <1>1, <1>2, PartialIntro DEF Contents

(* The directory is as it was locked, and nobody walks.                    *)
LEMMA LockInit == CheckInit => LockInv
<1> SUFFICES ASSUME CheckInit PROVE LockInv
  OBVIOUS
<1>1. tree \in [DOMAIN Locked -> Entry]
  BY LockedAssumption DEF CheckInit, TreeInit, Entry
<1>2. tree \in Partial(Entry)
  BY <1>1, LockedAssumption, PartialIntro
<1>3. Contents(tree) \in Partial(Content)
  BY <1>2, ContentsType
<1>4. TreeTypes
  <2>1. history = <<Contents(tree)>> /\ folder = 0 /\ blurred = FALSE
    BY DEF CheckInit, TreeInit
  <2>2. history \in Seq(Partial(Content))
    BY <2>1, <1>3
  <2> QED
    BY <2>1, <2>2, <1>2 DEF TreeTypes, Entry
<1>5. WalkTypes
  <2>1. walk.stamps \in [{} -> Nat] /\ walk.digest \in [{} -> Content \cup {Unread}]
    BY DEF CheckInit, TreeInit, NoWalk
  <2>2. walk.stamps \in Partial(Nat) /\ walk.digest \in Partial(Content \cup {Unread})
    BY <2>1, PartialIntro
  <2> QED
    BY <2>2 DEF CheckInit, TreeInit, NoWalk, WalkTypes
<1>6. Dated
  <2>1. Len(history) = 1 /\ history[1] = Contents(tree)
    BY DEF CheckInit, TreeInit
  <2>2. \A f \in DOMAIN tree : tree[f].stamp = 0
    BY DEF CheckInit, TreeInit
  <2> QED
    BY <2>1, <2>2 DEF Dated, NoWalk, CheckInit, TreeInit
<1>7. Faithful /\ HasMoment
  BY DEF Faithful, HasMoment, NoWalk, CheckInit, TreeInit
<1> QED
  BY <1>4, <1>5, <1>6, <1>7 DEF LockInv

(* Every file has a content and a stamp.                                   *)
LEMMA StampType ==
  ASSUME TreeTypes
  PROVE  /\ tree \in Partial(Entry)
         /\ \A f \in DOMAIN tree : f \in File /\ tree[f] \in Entry
         /\ \A f \in DOMAIN tree : tree[f].stamp \in Nat
<1>1. tree \in Partial(Entry)
  BY DEF TreeTypes, Entry
<1>2. DOMAIN tree \subseteq File /\ tree \in [DOMAIN tree -> Entry]
  BY <1>1, PartialElim
<1> QED
  BY <1>1, <1>2 DEF Entry

(* A file written or put in place.                                         *)
LEMMA WithType ==
  ASSUME tree \in Partial(Entry)
  PROVE  \A f \in File, c \in Content, s \in Nat :
           /\ With(tree, f, c, s) \in Partial(Entry)
           /\ DOMAIN With(tree, f, c, s) = DOMAIN tree \cup {f}
           /\ With(tree, f, c, s)[f] = [content |-> c, stamp |-> s]
           /\ \A g \in DOMAIN tree : g # f => With(tree, f, c, s)[g] = tree[g]
<1> TAKE f \in File, c \in Content, s \in Nat
<1>1. DOMAIN tree \subseteq File /\ tree \in [DOMAIN tree -> Entry]
  BY PartialElim
<1>2. With(tree, f, c, s) \in [DOMAIN tree \cup {f} -> Entry]
  BY <1>1 DEF With, Entry
<1>3. With(tree, f, c, s) \in Partial(Entry)
  BY <1>1, <1>2, PartialIntro
<1> QED
  BY <1>3 DEF With

(* What an edit does: a file it touches is given a signature that was not  *)
(* there before, or the edit is blurred.                                   *)
LEMMA EditEffect ==
  ASSUME TreeTypes, EditTree
  PROVE  /\ TreeTypes'
         /\ history' = Append(history, Contents(tree'))
         /\ blurred => blurred'
         /\ \A g \in DOMAIN tree' :
              \/ tree'[g].stamp = Len(history)
              \/ g \in DOMAIN tree /\ tree'[g].stamp = tree[g].stamp
         /\ ~blurred' => \A g \in DOMAIN tree' :
              \/ tree'[g].stamp = Len(history)
              \/ g \in DOMAIN tree /\ tree'[g] = tree[g]
<1>0. tree \in Partial(Entry) /\ Len(history) \in Nat /\ Fresh \in Nat
  BY DEF TreeTypes, Entry, Fresh
<1>1. \A g \in DOMAIN tree : tree[g].stamp \in Nat
  BY StampType
<1>w. \A f \in File, c \in Content, s \in Nat :
        /\ With(tree, f, c, s) \in Partial(Entry)
        /\ DOMAIN With(tree, f, c, s) = DOMAIN tree \cup {f}
        /\ With(tree, f, c, s)[f] = [content |-> c, stamp |-> s]
        /\ \A g \in DOMAIN tree : g # f => With(tree, f, c, s)[g] = tree[g]
  BY <1>0, WithType
<1>2. ASSUME NEW t \in Partial(Entry), tree' = t, folder' \in Nat, Edited,
             blurred' \in BOOLEAN
      PROVE  TreeTypes' /\ history' = Append(history, Contents(tree'))
  <2>1. Contents(tree') \in Partial(Content)
    BY <1>2, ContentsType
  <2>2. history' \in Seq(Partial(Content))
    BY <1>2, <2>1 DEF Edited, TreeTypes
  <2> QED
    BY <1>2, <2>2 DEF Edited, TreeTypes, Entry
<1>3. ASSUME NEW f \in File, NEW c \in Content, Put(f, c)
      PROVE  /\ TreeTypes' /\ history' = Append(history, Contents(tree'))
             /\ blurred' = blurred
             /\ \A g \in DOMAIN tree' :
                  \/ tree'[g].stamp = Len(history)
                  \/ g \in DOMAIN tree /\ tree'[g] = tree[g]
  <2> DEFINE t == With(tree, f, c, Fresh)
  <2>0. \E s \in Nat : s = Fresh
    BY <1>0
  <2>1. /\ t \in Partial(Entry) /\ DOMAIN t = DOMAIN tree \cup {f}
        /\ t[f] = [content |-> c, stamp |-> Fresh]
        /\ \A g \in DOMAIN tree : g # f => t[g] = tree[g]
    <3>1. PICK s \in Nat : s = Fresh
      BY <2>0
    <3>2. t = With(tree, f, c, s)
      BY <3>1
    <3> HIDE DEF t
    <3> QED
      BY <3>1, <3>2, <1>w
  <2>2. tree' = t /\ folder' = Fresh /\ Edited /\ blurred' = blurred
    BY <1>3 DEF Put
  <2> HIDE DEF t
  <2>3. TreeTypes' /\ history' = Append(history, Contents(tree'))
    BY <2>1, <2>2, <1>0, <1>2 DEF TreeTypes, Fresh
  <2> QED
    BY <2>1, <2>2, <2>3 DEF Fresh
<1>4. ASSUME NEW f \in File, NEW c \in Content, Overwrite(f, c)
      PROVE  /\ TreeTypes' /\ history' = Append(history, Contents(tree'))
             /\ blurred => blurred'
             /\ \A g \in DOMAIN tree' :
                  \/ tree'[g].stamp = Len(history)
                  \/ g \in DOMAIN tree /\ tree'[g].stamp = tree[g].stamp
             /\ ~blurred' => \A g \in DOMAIN tree' :
                  \/ tree'[g].stamp = Len(history)
                  \/ g \in DOMAIN tree /\ tree'[g] = tree[g]
  <2>w. \A s \in Nat :
          /\ With(tree, f, c, s) \in Partial(Entry)
          /\ DOMAIN With(tree, f, c, s) = DOMAIN tree \cup {f}
          /\ With(tree, f, c, s)[f] = [content |-> c, stamp |-> s]
          /\ \A g \in DOMAIN tree : g # f => With(tree, f, c, s)[g] = tree[g]
    BY <1>w
  <2>1. PICK s \in {Fresh, tree[f].stamp} :
          /\ tree' = With(tree, f, c, s)
          /\ blurred' = (blurred \/ s # Fresh)
    BY <1>4 DEF Overwrite
  <2>2. f \in DOMAIN tree
    BY <1>4 DEF Overwrite
  <2>n. s \in Nat
    BY <1>0, <1>1, <2>2 DEF Fresh
  <2> DEFINE t == With(tree, f, c, s)
  <2>3. /\ t \in Partial(Entry) /\ DOMAIN t = DOMAIN tree \cup {f}
        /\ t[f] = [content |-> c, stamp |-> s]
        /\ \A g \in DOMAIN tree : g # f => t[g] = tree[g]
    BY <2>n, <2>w
  <2>4. tree' = t /\ folder' = folder /\ Edited
    BY <1>4, <2>1 DEF Overwrite
  <2> HIDE DEF t
  <2>5. TreeTypes' /\ history' = Append(history, Contents(tree'))
    BY <2>1, <2>3, <2>4, <1>2 DEF TreeTypes
  <2>6. t[f].stamp = s
    BY <2>3
  <2>7. ~blurred' => s = Fresh
    BY <2>1
  <2> QED
    BY <2>1, <2>2, <2>n, <2>3, <2>4, <2>5, <2>6, <2>7 DEF Fresh
<1>5. ASSUME NEW f \in File, Delete(f)
      PROVE  /\ TreeTypes' /\ history' = Append(history, Contents(tree'))
             /\ blurred' = blurred
             /\ \A g \in DOMAIN tree' : g \in DOMAIN tree /\ tree'[g] = tree[g]
  <2> DEFINE t == [g \in DOMAIN tree \ {f} |-> tree[g]]
  <2>1. t \in Partial(Entry)
    <3>1. DOMAIN tree \subseteq File /\ tree \in [DOMAIN tree -> Entry]
      BY <1>0, PartialElim
    <3>2. t \in [DOMAIN tree \ {f} -> Entry]
      BY <3>1
    <3> QED
      BY <3>1, <3>2, PartialIntro
  <2>2. tree' = t /\ folder' = Fresh /\ Edited /\ blurred' = blurred
    BY <1>5 DEF Delete
  <2>3. TreeTypes' /\ history' = Append(history, Contents(tree'))
    BY <2>1, <2>2, <1>0, <1>2 DEF TreeTypes, Fresh
  <2> QED
    BY <2>2, <2>3
<1> QED
  BY <1>3, <1>4, <1>5 DEF EditTree

(* An edit takes nothing away from what the walk knows: what it leaves     *)
(* intact it has not changed, and the past stays.                          *)
LEMMA EditKeepsLock ==
  ASSUME LockInv, EditTree, UNCHANGED walk
  PROVE  LockInv'
<1>0. TreeTypes /\ WalkTypes /\ Dated
  BY DEF LockInv
<1>1. /\ TreeTypes'
      /\ history' = Append(history, Contents(tree'))
      /\ blurred => blurred'
      /\ \A g \in DOMAIN tree' :
           \/ tree'[g].stamp = Len(history)
           \/ g \in DOMAIN tree /\ tree'[g].stamp = tree[g].stamp
      /\ ~blurred' => \A g \in DOMAIN tree' :
           \/ tree'[g].stamp = Len(history)
           \/ g \in DOMAIN tree /\ tree'[g] = tree[g]
  BY <1>0, EditEffect
<1>2. /\ Len(history) \in Nat
      /\ history \in Seq(Partial(Content))
      /\ Contents(tree') \in Partial(Content)
  <2>1. tree' \in Partial(Entry)
    BY <1>1 DEF TreeTypes, Entry
  <2> QED
    BY <1>0, <2>1, ContentsType DEF TreeTypes
<1>3. /\ Len(history') = Len(history) + 1
      /\ history'[Len(history')] = Contents(tree')
      /\ \A i \in 1 .. Len(history) : history'[i] = history[i]
  BY <1>1, <1>2
<1>4. WalkTypes'
  BY <1>0 DEF WalkTypes
<1>5. \A f \in walk.names : walk.stamps[f] \in Nat /\ walk.stamps[f] < Len(history)
  <2>1. walk.stamps \in [walk.names -> Nat]
    BY <1>0, PartialElim DEF WalkTypes
  <2> QED
    BY <2>1, <1>0 DEF Dated
<1>6. Dated'
  <2>0. \A f \in DOMAIN tree : tree[f].stamp \in Nat /\ tree[f].stamp < Len(history)
    BY <1>0, StampType DEF Dated
  <2>1. \A f \in DOMAIN tree' : tree'[f].stamp < Len(history')
    BY <1>1, <1>2, <1>3, <2>0
  <2>2. walk.began \in Nat
    BY <1>0 DEF WalkTypes
  <2> QED
    BY <1>0, <1>2, <1>3, <1>5, <2>1, <2>2 DEF Dated
<1>7. ASSUME ~blurred' PROVE Faithful' /\ HasMoment'
  <2>1. Faithful /\ HasMoment
    BY <1>1, <1>7 DEF LockInv
  <2>2. \A f \in walk.names : Intact(f)' =>
          Intact(f) /\ tree'[f] = tree[f]
    BY <1>1, <1>2, <1>5, <1>7 DEF Intact
  <2>3. \A f : (Hashed(f)' <=> Hashed(f)) /\ (Checked(f)' <=> Checked(f))
    BY DEF Hashed, Checked
  <2>4. Faithful'
    BY <2>1, <2>2, <2>3 DEF Faithful
  <2>5. ASSUME NEW i \in Nat, Moment(i) PROVE Moment(i)'
    BY <1>2, <1>3, <2>2, <2>3, <2>5, <1>0 DEF Moment, WalkTypes
  <2> QED
    BY <2>1, <2>4, <2>5 DEF HasMoment
<1> QED
  BY <1>1, <1>4, <1>6, <1>7 DEF LockInv

(* The walk's own steps.  The moment of the lock is the one at which the   *)
(* second walk lists the directory.                                        *)
LEMMA WalkKeepsLock ==
  ASSUME LockInv, WalkStep, UNCHANGED treeVars
  PROVE  LockInv'
<1>0. TreeTypes /\ WalkTypes /\ Dated
  BY DEF LockInv
<1>1. /\ tree' = tree /\ folder' = folder /\ history' = history
      /\ blurred' = blurred
  BY DEF treeVars
<1>2. TreeTypes'
  BY <1>0, <1>1 DEF TreeTypes
<1>3. /\ \A f \in DOMAIN tree : f \in File /\ tree[f].stamp \in Nat
      /\ \A f \in DOMAIN tree : tree[f].content \in Content
      /\ DOMAIN tree \subseteq File
      /\ Len(history) \in Nat
      /\ folder \in Nat
  BY <1>0, StampType DEF Entry, TreeTypes
<1>4. /\ walk.stamps \in [walk.names -> Nat]
      /\ walk.digest \in [walk.names -> Content \cup {Unread}]
  BY <1>0, PartialElim DEF WalkTypes
<1>5. walk.names \subseteq File /\ walk.left \subseteq walk.names
  BY <1>0 DEF WalkTypes
<1>6. SUFFICES WalkTypes' /\ Dated' /\ (~blurred => Faithful' /\ HasMoment')
  BY <1>1, <1>2 DEF LockInv
<1>n. walk.left # {} => NextFile \in walk.left
  BY DEF NextFile
<1>7. CASE BeginWalk
  <2> USE <1>7 DEF BeginWalk
  <2>1. /\ walk'.stamps \in Partial(Nat)
        /\ walk'.digest \in Partial(Content \cup {Unread})
    BY <1>3, PartialIntro
  <2>2. WalkTypes'
    BY <1>3, <2>1 DEF WalkTypes
  <2>3. Dated'
    BY <1>0, <1>1, <1>3 DEF Dated
  <2> QED
    BY <2>2, <2>3 DEF Faithful, HasMoment, Hashed
<1>8. CASE SignFolder
  <2> USE <1>8 DEF SignFolder
  <2>1. WalkTypes'
    BY <1>0, <1>3 DEF WalkTypes
  <2>2. Dated'
    BY <1>0, <1>1 DEF Dated, WalkTypes
  <2>3. walk.left = walk.names
    BY <1>0 DEF WalkTypes
  <2> QED
    BY <1>0, <2>1, <2>2, <2>3 DEF Faithful, HasMoment, Hashed, WalkTypes
<1>9. CASE StatFile
  <2> DEFINE g == NextFile
  <2>1. g \in walk.left /\ g \in DOMAIN tree
    BY <1>9, <1>n DEF StatFile
  <2>2. walk' = [walk EXCEPT !.stage = "read", !.at = g,
                             !.stamps[g] = tree[g].stamp]
    BY <1>9 DEF StatFile
  <2> HIDE DEF g
  <2>3. walk'.stamps \in [walk.names -> Nat]
    BY <1>0, <1>3, <1>4, <1>5, <2>1, <2>2 DEF WalkTypes
  <2>4. walk'.stamps \in Partial(Nat)
    BY <1>5, <2>3, PartialIntro
  <2>5. WalkTypes'
    BY <1>0, <1>5, <2>1, <2>2, <2>3, <2>4 DEF WalkTypes
  <2>6. /\ walk'.stage = "read" /\ walk'.names = walk.names
        /\ walk'.began = walk.began /\ walk'.digest = walk.digest
        /\ walk'.left = walk.left /\ walk'.stamps[g] = tree[g].stamp
        /\ \A f \in walk.names : f # g => walk'.stamps[f] = walk.stamps[f]
    BY <1>0, <1>4, <1>5, <2>1, <2>2 DEF WalkTypes
  <2>7. Dated'
    BY <1>0, <1>1, <2>1, <2>6 DEF Dated
  <2>8. ASSUME ~blurred PROVE Faithful'
    BY <1>1, <1>9, <2>1, <2>6, <2>8 DEF LockInv, Faithful, Hashed, Intact, StatFile
  <2> QED
    BY <2>5, <2>6, <2>7, <2>8 DEF HasMoment
<1>10. CASE ReadFile
  <2> DEFINE g == walk.at
  <2>1. g \in walk.left /\ g \in DOMAIN tree
    BY <1>0, <1>10 DEF ReadFile, WalkTypes
  <2>2. walk' = [walk EXCEPT !.stage = "recheck", !.digest[g] = tree[g].content]
    BY <1>10 DEF ReadFile
  <2>3. walk'.digest \in [walk.names -> Content \cup {Unread}]
    BY <1>0, <1>3, <1>4, <1>5, <2>1, <2>2 DEF WalkTypes
  <2>4. walk'.digest \in Partial(Content \cup {Unread})
    BY <1>5, <2>3, PartialIntro
  <2>5. WalkTypes'
    BY <1>0, <1>5, <2>1, <2>2, <2>3, <2>4 DEF WalkTypes
  <2>6. /\ walk'.stage = "recheck" /\ walk'.names = walk.names
        /\ walk'.began = walk.began /\ walk'.stamps = walk.stamps
        /\ walk'.left = walk.left /\ walk'.at = g
        /\ walk'.digest[g] = tree[g].content
        /\ \A f \in walk.names : f # g => walk'.digest[f] = walk.digest[f]
    BY <1>0, <1>4, <1>5, <2>1, <2>2 DEF WalkTypes
  <2>7. Dated'
    BY <1>0, <1>1, <2>6 DEF Dated
  <2>8. ASSUME ~blurred PROVE Faithful'
    BY <1>1, <1>10, <2>1, <2>6, <2>8 DEF LockInv, Faithful, Hashed, Intact, ReadFile
  <2> QED
    BY <2>5, <2>6, <2>7, <2>8 DEF HasMoment
<1>11. CASE RecheckFile
  <2>1. /\ walk.stage = "recheck"
        /\ walk' = [walk EXCEPT !.stage = "hash", !.left = @ \ {walk.at}]
    BY <1>11 DEF RecheckFile
  <2>2. WalkTypes'
    BY <1>0, <2>1 DEF WalkTypes
  <2>3. /\ walk'.stage = "hash" /\ walk'.names = walk.names
        /\ walk'.began = walk.began /\ walk'.stamps = walk.stamps
        /\ walk'.left = walk.left \ {walk.at} /\ walk'.digest = walk.digest
    BY <1>0, <2>1 DEF WalkTypes
  <2>4. Dated'
    BY <1>0, <1>1, <2>3 DEF Dated
  <2>5. ASSUME ~blurred PROVE Faithful'
    BY <1>1, <2>1, <2>3, <2>5 DEF LockInv, Faithful, Hashed, Intact
  <2> QED
    BY <2>2, <2>3, <2>4, <2>5 DEF HasMoment
<1>12. CASE Relist
  <2>1. /\ walk.stage = "hash" /\ walk.left = {} /\ DOMAIN tree = walk.names
        /\ walk' = [walk EXCEPT !.stage = "resign"]
    BY <1>12 DEF Relist
  <2>2. WalkTypes'
    BY <1>0, <2>1 DEF WalkTypes
  <2>3. /\ walk'.stage = "resign" /\ walk'.names = walk.names
        /\ walk'.began = walk.began /\ walk'.stamps = walk.stamps
        /\ walk'.left = walk.left /\ walk'.digest = walk.digest
    BY <1>0, <2>1 DEF WalkTypes
  <2>4. Dated'
    BY <1>0, <1>1, <2>3 DEF Dated
  <2>5. ASSUME ~blurred PROVE Faithful' /\ Moment(Len(history))'
    <3>1. \A f \in walk.names : Intact(f) => tree[f].content = walk.digest[f]
      BY <2>1, <2>5 DEF LockInv, Faithful, Hashed
    <3>2. Faithful'
      BY <1>1, <2>3, <3>1 DEF Faithful, Intact
    <3>3. /\ history[Len(history)] = Contents(tree)
          /\ DOMAIN Contents(tree) = DOMAIN tree
          /\ \A f \in DOMAIN tree : Contents(tree)[f] = tree[f].content
      BY <1>0, ContentsType, StampType DEF Dated
    <3>4. Len(history) > 0 /\ walk.began \in Nat /\ walk.began <= Len(history)
      BY <1>0 DEF Dated, WalkTypes
    <3> QED
      BY <1>1, <1>3, <2>1, <2>3, <3>1, <3>2, <3>3, <3>4 DEF Moment, Checked, Intact
  <2> QED
    BY <1>1, <1>3, <2>2, <2>4, <2>5 DEF HasMoment
<1>13. CASE Resign \/ Restat \/ Relook \/ LastSign
  <2>1. /\ walk.stage \in Later /\ walk'.stage \in Later
        /\ \E st \in Later, l \in SUBSET walk.names :
             walk' = [walk EXCEPT !.stage = st, !.left = l]
    <3>1. CASE Resign
      <4>1. /\ walk.stage \in Later /\ walk.names \in SUBSET walk.names
            /\ walk' = [walk EXCEPT !.stage = "restat", !.left = walk.names]
        BY <3>1 DEF Resign
      <4> QED
        BY <1>0, <4>1 DEF WalkTypes
    <3>2. CASE Restat
      <4>1. /\ walk.stage \in Later
            /\ walk' = [walk EXCEPT !.stage = walk.stage,
                                    !.left = walk.left \ {NextFile}]
        BY <1>0, <3>2 DEF Restat, WalkTypes
      <4> QED
        BY <1>0, <1>5, <4>1 DEF WalkTypes
    <3>3. CASE Relook
      <4>1. /\ walk.stage \in Later /\ walk.names \in SUBSET walk.names
            /\ walk' = [walk EXCEPT !.stage = "relook", !.left = walk.names]
        BY <3>3 DEF Relook
      <4> QED
        BY <1>0, <4>1 DEF WalkTypes
    <3>4. CASE LastSign
      <4>1. walk' = [walk EXCEPT !.stage = "walked", !.left = walk.left]
        BY <1>0, <3>4 DEF LastSign, WalkTypes
      <4> QED
        BY <1>0, <1>5, <3>4, <4>1 DEF LastSign, WalkTypes
    <3> QED
      BY <1>13, <3>1, <3>2, <3>3, <3>4
  <2>2. WalkTypes'
    BY <1>0, <1>5, <2>1 DEF WalkTypes
  <2>3. /\ walk'.names = walk.names
        /\ walk'.began = walk.began /\ walk'.stamps = walk.stamps
        /\ walk'.digest = walk.digest
    BY <1>0, <2>1 DEF WalkTypes
  <2>4. Dated'
    BY <1>0, <1>1, <2>3 DEF Dated
  <2>5. ASSUME ~blurred PROVE Faithful'
    BY <1>1, <2>1, <2>3, <2>5 DEF LockInv, Faithful, Hashed, Intact
  <2>6. \A f \in walk.names : Checked(f)' => Checked(f) \/ Intact(f)
    BY ZenonT(60), <1>0, <1>13, <1>n DEF Resign, Restat, Relook, LastSign, Checked, WalkTypes
  <2>7. ASSUME NEW i \in Nat, Moment(i) PROVE Moment(i)'
    BY <1>1, <2>3, <2>6, <2>7 DEF Moment, Intact
  <2> QED
    BY <2>1, <2>2, <2>4, <2>5, <2>7 DEF HasMoment, LockInv
<1> QED
  BY <1>7, <1>8, <1>9, <1>10, <1>11, <1>12, <1>13 DEF WalkStep

(* Every step of the check keeps what is known of the directory.           *)
LEMMA LockNext == LockInv /\ [CheckNext]_checkVars => LockInv'
<1> SUFFICES ASSUME LockInv, [CheckNext]_checkVars PROVE LockInv'
  OBVIOUS
<1>1. CASE UNCHANGED lockVars
  BY <1>1 DEF lockVars, treeVars, LockInv, TreeTypes, WalkTypes, Dated,
     Faithful, HasMoment, Moment, Hashed, Checked, Intact
<1>2. CASE WalkLock
  BY <1>2, WalkKeepsLock DEF WalkLock
<1>3. CASE VerifyLock
  <2>1. walk' = NoWalk /\ UNCHANGED treeVars
    BY <1>3 DEF VerifyLock
  <2>2. walk'.stamps \in Partial(Nat) /\ walk'.digest \in Partial(Content \cup {Unread})
    <3>1. walk'.stamps \in [{} -> Nat] /\ walk'.digest \in [{} -> Content \cup {Unread}]
      BY <2>1 DEF NoWalk
    <3> QED
      BY <3>1, PartialIntro
  <2>3. WalkTypes'
    BY <2>1, <2>2 DEF WalkTypes, NoWalk
  <2>4. TreeTypes' /\ Dated'
    BY <2>1 DEF LockInv, TreeTypes, Dated, treeVars, NoWalk, Contents
  <2>5. Faithful' /\ HasMoment'
    BY <2>1 DEF Faithful, HasMoment, NoWalk
  <2> QED
    BY <2>3, <2>4, <2>5 DEF LockInv
<1>4. CASE Edit
  <2>1. (EditTree /\ UNCHANGED walk) \/ UNCHANGED lockVars
    BY <1>4 DEF Edit, Upgrade, lockVars
  <2> QED
    BY <2>1, <1>1, EditKeepsLock
<1> QED
  BY <1>1, <1>2, <1>3, <1>4 DEF CheckNext, Checker, StatRuntime, ReadRuntime,
     Version, ReadRecords, RunSample, JudgeSample, GroupRuns, InterruptSample,
     checkVars

(* A walk that ended has the moment.                                       *)
LEMMA LockMoment ==
  ASSUME LockInv, walk.stage = "walked", ~blurred
  PROVE  \E i \in walk.began .. Len(history) : i > 0 /\ history[i] = walk.digest
<1>1. PICK i \in Nat : Moment(i)
  BY DEF LockInv, HasMoment
<1>2. /\ i \in walk.began .. Len(history)
      /\ i \in 1 .. Len(history)
      /\ DOMAIN history[i] = walk.names
      /\ \A f \in walk.names : history[i][f] = walk.digest[f]
  BY <1>1 DEF Moment, Checked, LockInv, TreeTypes, WalkTypes
<1>3. history[i] \in Partial(Content)
  BY <1>2 DEF LockInv, TreeTypes
<1>4. history[i] \in [walk.names -> Content]
  BY <1>2, <1>3, PartialElim
<1>5. walk.digest \in [walk.names -> Content \cup {Unread}]
  BY PartialElim DEF LockInv, WalkTypes
<1>6. history[i] = walk.digest
  BY <1>2, <1>4, <1>5
<1> QED
  BY <1>2, <1>6

(* A content lock is what the directory contained at one moment since its  *)
(* walk began, for any files, contents and number of edits.                *)
THEOREM SnapshotIsGenuine == CheckSpec => []SnapshotWasThere
<1>1. LockInv => SnapshotWasThere
  BY LockMoment DEF SnapshotWasThere
<1> QED
  BY <1>1, LockInit, LockNext, PTL DEF CheckSpec

-----------------------------------------------------------------------------
(* The report.                                                             *)

Phase == {"open_lock", "open_runtime", "open_identity", "version", "records",
          "sample", "close_runtime", "close_identity", "close_lock", "reported"}

Closing == {"close_runtime", "close_identity", "close_lock"}

Judged == check.phase \in Closing /\ ~check.failed

CheckTypes ==
  /\ runtime \in [content : Build, stamp : Nat]
  /\ past \in Seq(Build)
  /\ Len(past) > 0
  /\ past[Len(past)] = runtime.content
  /\ check \in [phase : Phase, stamp : Nat, identity : Build \cup {Unread},
                records : Content \cup {Unread}, used : Build \cup {Unread},
                failed : BOOLEAN, report : {"none", "PASS", "FAIL", "ERROR"}]
  /\ check.phase # "reported" => check.report = "none"
  /\ check.phase \notin {"open_lock", "close_lock"} => walk.stage = "idle"

ReadAt(m) ==
  /\ Validation \in DOMAIN history[m]
  /\ history[m][Validation] = check.records

(* The directory was as locked before the records were read, and again     *)
(* when the check reported.                                                *)
ReadBetween ==
  /\ check.phase \notin {"open_lock", "reported"}
       => \E i \in DOMAIN history : history[i] = Locked
  /\ check.phase = "sample" \/ Judged
       => \E i, m \in DOMAIN history :
            /\ i <= m
            /\ history[i] = Locked
            /\ ReadAt(m)
            /\ walk.stage = "idle" \/ m <= walk.began
  /\ check.report = "PASS"
       => \E i, m, k \in DOMAIN history :
            /\ i <= m /\ m <= k
            /\ history[i] = Locked
            /\ ReadAt(m)
            /\ history[k] = Locked

(* The runtime had its identity before Lean ran, and again afterwards.     *)
RanBetween ==
  /\ check.phase \in {"version", "records", "sample"} \cup Closing
       => \E a \in DOMAIN past : past[a] = check.identity
  /\ (check.phase = "sample" /\ pc # "start") \/ Judged
       => \E a, b \in DOMAIN past :
            a <= b /\ past[a] = check.identity /\ past[b] = check.used
  /\ (check.phase = "close_lock" /\ ~check.failed) \/ check.report = "PASS"
       => \E a, b, c \in DOMAIN past :
            /\ a <= b /\ b <= c
            /\ past[a] = check.identity
            /\ past[b] = check.used
            /\ past[c] = check.identity

(* Lean has not run before the sample, and passed when nothing failed.     *)
LeanPassed ==
  /\ check.phase \in {"open_lock", "open_runtime", "open_identity",
                      "version", "records"} => pc = "start"
  /\ Judged \/ check.report = "PASS" => result = "PASS"

ReportInv ==
  /\ CheckTypes
  /\ ~blurred => ReadBetween
  /\ RanBetween
  /\ LeanPassed

USE DEF Phase, Closing

(* The check has not begun.                                                *)
LEMMA ReportInit == CheckInit => ReportInv
<1> SUFFICES ASSUME CheckInit PROVE ReportInv
  OBVIOUS
<1>1. CheckTypes
  <2>1. past = <<Installed>> /\ Installed \in Build
    BY CheckAssumption DEF CheckInit
  <2>2. past \in Seq(Build) /\ Len(past) = 1 /\ past[1] = Installed
    BY <2>1
  <2> QED
    BY <2>1, <2>2 DEF CheckInit, CheckTypes, TreeInit, NoWalk
<1> QED
  BY <1>1 DEF ReportInv, ReadBetween, RanBetween, LeanPassed, Judged, CheckInit, Init, ReadAt

(* Nothing is taken back from what was.                                    *)
PastKept ==
  /\ \A i \in DOMAIN history : i \in DOMAIN history' /\ history'[i] = history[i]
  /\ \A i \in DOMAIN past : i \in DOMAIN past' /\ past'[i] = past[i]
  /\ blurred => blurred'

(* No step does.                                                           *)
LEMMA PastStays ==
  ASSUME LockInv, CheckTypes, [CheckNext]_checkVars
  PROVE  PastKept
<1> USE DEF PastKept
<1>1. CASE Edit
  <2>1. CASE EditTree /\ UNCHANGED runtimeVars
    <3>1. history' = Append(history, Contents(tree')) /\ blurred => blurred'
      BY <2>1, EditEffect DEF LockInv
    <3>2. history \in Seq(Partial(Content))
      BY DEF LockInv, TreeTypes
    <3> QED
      BY <2>1, <3>1, <3>2, EditEffect DEF LockInv, runtimeVars
  <2>2. ASSUME NEW b \in Build, Upgrade(b) PROVE PastKept
    BY <2>2 DEF Upgrade, CheckTypes, treeVars
  <2> QED
    BY <1>1, <2>1, <2>2 DEF Edit
<1>2. CASE UNCHANGED <<history, past, blurred>>
  BY <1>2
<1> QED
  BY <1>1, <1>2 DEF CheckNext, Checker, WalkLock, VerifyLock, StatRuntime,
     ReadRuntime, Version, ReadRecords, RunSample, JudgeSample, GroupRuns,
     InterruptSample, checkVars, runtimeVars, lockVars, treeVars

(* Every step of the check keeps what its report will say.                 *)
LEMMA ReportNext ==
  ASSUME LockInv, ReportInv, [CheckNext]_checkVars
  PROVE  ReportInv'
<1> USE DEF ReportInv
<1>k. PastKept
  BY PastStays
<1>h. /\ Len(history) \in Nat /\ Len(history) > 0
      /\ history[Len(history)] = Contents(tree)
      /\ DOMAIN history = 1 .. Len(history)
      /\ DOMAIN past = 1 .. Len(past) /\ Len(past) \in Nat
  BY DEF LockInv, TreeTypes, Dated, CheckTypes
<1>1. CASE UNCHANGED check /\ UNCHANGED walk /\ UNCHANGED <<pc, result>> /\ CheckTypes'
  <2>1. ~blurred' => ReadBetween'
    BY <1>1, <1>k DEF PastKept, ReadBetween, Judged, ReadAt
  <2>2. RanBetween'
    BY <1>1, <1>k DEF PastKept, RanBetween, Judged
  <2> QED
    BY <1>1, <2>1, <2>2 DEF LeanPassed, Judged
<1>2. CASE Edit
  <2>1. CheckTypes'
    <3>1. CASE UNCHANGED runtimeVars
      BY <1>2, <3>1 DEF Edit, runtimeVars, CheckTypes
    <3>2. ASSUME NEW b \in Build, Upgrade(b) PROVE CheckTypes'
      BY <1>2, <3>2 DEF Edit, Upgrade, CheckTypes
    <3> QED
      BY <1>2, <3>1, <3>2 DEF Edit
  <2> QED
    BY <1>1, <1>2, <2>1 DEF Edit, verifierVars, vars
<1>3. CASE WalkLock
  <2>1. CheckTypes'
    BY <1>3 DEF WalkLock, CheckTypes, runtimeVars
  <2>2. /\ check' = check /\ pc' = pc /\ result' = result /\ history' = history
        /\ past' = past /\ blurred' = blurred
    BY <1>3 DEF WalkLock, verifierVars, vars, treeVars, runtimeVars
  <2>3. \/ walk.stage = "idle" /\ walk'.began = Len(history)
        \/ walk.stage # "idle" /\ walk'.began = walk.began
    <3>1. CASE BeginWalk
      BY <3>1 DEF BeginWalk
    <3>2. CASE SignFolder \/ Relist \/ Resign \/ Relook \/ LastSign
      BY <3>2 DEF SignFolder, Relist, Resign, Relook, LastSign, LockInv, WalkTypes
    <3>3. CASE StatFile \/ Restat
      BY <3>3 DEF StatFile, Restat, LockInv, WalkTypes
    <3>4. CASE ReadFile \/ RecheckFile
      BY <3>4 DEF ReadFile, RecheckFile, LockInv, WalkTypes
    <3> QED
      BY <1>3, <3>1, <3>2, <3>3, <3>4 DEF WalkLock, WalkStep
  <2>4. ~blurred' => ReadBetween'
    BY <1>h, <2>2, <2>3 DEF ReadBetween, Judged, ReadAt
  <2> QED
    BY <2>1, <2>2, <2>4 DEF RanBetween, LeanPassed, Judged
<1>4. CASE VerifyLock
  <2>1. /\ pc' = pc /\ result' = result /\ history' = history
        /\ past' = past /\ runtime' = runtime /\ blurred' = blurred
        /\ walk'.stage = "idle"
    BY <1>4 DEF VerifyLock, verifierVars, vars, treeVars, runtimeVars, NoWalk
  <2>2. CASE WalkReturns /\ walk.digest = Locked
    <3>1. \/ /\ check.phase = "open_lock"
             /\ check' = [check EXCEPT !.phase = "open_runtime"]
          \/ /\ check.phase = "close_lock"
             /\ check' = [check EXCEPT !.phase = "reported",
                            !.report = IF check.failed THEN "FAIL" ELSE "PASS"]
      BY <1>4, <2>2 DEF VerifyLock, Goes, Report, Raise, WalkReturns, WalkRaises
    <3>2. CheckTypes'
      BY <2>1, <3>1 DEF CheckTypes
    <3>3. ASSUME ~blurred
          PROVE  \E k \in DOMAIN history :
                   history[k] = Locked /\ walk.began <= k
      <4>1. walk.stage = "walked" /\ walk.digest = Locked
        BY <2>2 DEF WalkReturns
      <4>2. \E k \in walk.began .. Len(history) : k > 0 /\ history[k] = Locked
        BY <3>3, <4>1, LockMoment
      <4> QED
        BY <4>2, <1>h DEF LockInv, WalkTypes
    <3>4. walk.stage # "idle" /\ walk.began \in Nat
      BY <2>2 DEF WalkReturns, LockInv, WalkTypes
    <3>5. CASE check.phase = "open_lock"
      <4>1. /\ check'.phase = "open_runtime" /\ check'.report = "none"
            /\ pc = "start"
        BY <3>1, <3>5 DEF CheckTypes, LeanPassed
      <4> QED
        BY <2>1, <3>2, <3>3, <4>1 DEF ReadBetween, RanBetween, LeanPassed, Judged
    <3>6. CASE check.phase = "close_lock"
      <4>1. /\ check'.phase = "reported"
            /\ check'.report = "PASS" => ~check.failed
            /\ check'.identity = check.identity /\ check'.used = check.used
            /\ check'.records = check.records
        BY <3>1, <3>6 DEF CheckTypes
      <4>2. ASSUME check'.report = "PASS" PROVE Judged
        BY <3>6, <4>1, <4>2 DEF Judged
      <4>3. ASSUME ~blurred, check'.report = "PASS" PROVE ReadBetween'
        <5>1. PICK i, m \in DOMAIN history :
                /\ i <= m
                /\ history[i] = Locked
                /\ ReadAt(m)
                /\ m <= walk.began
          BY <3>4, <4>2, <4>3 DEF ReadBetween
        <5>2. PICK k \in DOMAIN history : history[k] = Locked /\ walk.began <= k
          BY <3>3, <4>3
        <5>3. m <= k
          BY <1>h, <3>4, <5>1, <5>2
        <5> QED
          BY <2>1, <4>1, <5>1, <5>2, <5>3 DEF ReadBetween, ReadAt, Judged
      <4>4. ASSUME check'.report # "PASS" PROVE ReadBetween'
        BY <4>1, <4>4 DEF ReadBetween, Judged
      <4>5. RanBetween' /\ LeanPassed'
        BY <2>1, <3>6, <4>1, <4>2 DEF RanBetween, LeanPassed, Judged
      <4> QED
        BY <2>1, <3>2, <4>3, <4>4, <4>5
    <3> QED
      BY <3>1, <3>5, <3>6
  <2>3. CASE Raise
    <3>1. check'.phase = "reported" /\ check'.report = "ERROR"
      BY <2>3 DEF Raise, CheckTypes
    <3>2. CheckTypes'
      BY <2>1, <2>3 DEF Raise, CheckTypes
    <3> QED
      BY <3>1, <3>2 DEF ReadBetween, RanBetween, LeanPassed, Judged
  <2> QED
    BY <1>4, <2>2, <2>3 DEF VerifyLock
<1>5. CASE /\ Raise
           /\ check.phase \notin {"open_lock", "close_lock"}
           /\ UNCHANGED <<lockVars, runtimeVars>>
  <2>1. check'.phase = "reported" /\ check'.report = "ERROR"
    BY <1>5 DEF Raise, CheckTypes
  <2>2. CheckTypes'
    BY <1>5, <2>1 DEF Raise, CheckTypes, lockVars, runtimeVars
  <2> QED
    BY <2>1, <2>2 DEF ReadBetween, RanBetween, LeanPassed, Judged
<1>6. CASE StatRuntime
  <2>1. UNCHANGED <<pc, result, history, past, runtime, blurred, walk>>
    BY <1>6 DEF StatRuntime, verifierVars, vars, lockVars, treeVars, runtimeVars
  <2>2. /\ CheckTypes'
        /\ check'.failed = check.failed /\ check'.report = "none"
        /\ check'.identity = check.identity /\ check'.used = check.used
        /\ check'.records = check.records
        /\ \/ check.phase = "open_runtime" /\ check'.phase = "open_identity"
           \/ check.phase = "close_runtime" /\ check'.phase = "close_identity"
    BY <1>6, <2>1 DEF StatRuntime, CheckTypes
  <2> QED
    BY <2>1, <2>2 DEF ReadBetween, RanBetween, LeanPassed, Judged, ReadAt
<1>7. CASE ReadRuntime
  <2>1. UNCHANGED <<lockVars, runtimeVars>>
    BY <1>7 DEF ReadRuntime
  <2>2. UNCHANGED <<pc, result, history, past, runtime, blurred, walk>>
    BY <1>7 DEF ReadRuntime, verifierVars, vars, lockVars, treeVars, runtimeVars
  <2>3. past[Len(past)] = runtime.content /\ Len(past) \in DOMAIN past /\ runtime.content \in Build
    BY <1>h DEF CheckTypes
  <2>4. CASE /\ check.phase = "open_identity"
             /\ check' = [check EXCEPT !.phase = "version",
                                       !.identity = runtime.content]
    <3>1. /\ CheckTypes' /\ check'.phase = "version" /\ check'.report = "none"
          /\ check'.identity = runtime.content
      BY <2>2, <2>3, <2>4 DEF CheckTypes
    <3> QED
      BY <2>2, <2>3, <2>4, <3>1 DEF ReadBetween, RanBetween, LeanPassed, Judged
  <2>5. CASE /\ check.phase = "close_identity"
             /\ runtime.content = check.identity
             /\ Goes("close_lock")
    <3>1. /\ CheckTypes' /\ check'.phase = "close_lock" /\ check'.report = "none"
          /\ check'.failed = check.failed
          /\ check'.identity = check.identity /\ check'.used = check.used
          /\ check'.records = check.records
      BY <2>2, <2>5 DEF CheckTypes, Goes
    <3>2. ReadBetween => ReadBetween'
      BY <2>2, <2>5, <3>1 DEF ReadBetween, Judged, ReadAt
    <3>3. RanBetween'
      <4>1. ASSUME ~check.failed
            PROVE  \E a, b, c \in DOMAIN past :
                     /\ a <= b /\ b <= c
                     /\ past[a] = check.identity
                     /\ past[b] = check.used
                     /\ past[c] = check.identity
        <5>1. PICK a, b \in DOMAIN past :
                a <= b /\ past[a] = check.identity /\ past[b] = check.used
          BY <2>5, <4>1 DEF RanBetween, Judged
        <5> QED
          BY <1>h, <2>3, <2>5, <5>1
      <4> QED
        BY <2>2, <2>5, <3>1, <4>1 DEF RanBetween, Judged
    <3> QED
      BY <2>2, <2>5, <3>1, <3>2, <3>3 DEF LeanPassed, Judged
  <2> QED
    BY <1>5, <1>7, <2>1, <2>4, <2>5 DEF ReadRuntime
<1>8. CASE Version
  <2>1. UNCHANGED <<pc, result, history, past, runtime, blurred, walk>>
    BY <1>8 DEF Version, verifierVars, vars, lockVars, treeVars, runtimeVars
  <2>2. CASE \/ Goes("records")
             \/ check' = [check EXCEPT !.phase = "close_runtime", !.failed = TRUE]
    <3>1. /\ CheckTypes' /\ check'.report = "none"
          /\ check'.identity = check.identity
          /\ \/ check'.phase = "records"
             \/ check'.phase = "close_runtime" /\ check'.failed
      BY <1>8, <2>1, <2>2 DEF Version, CheckTypes, Goes
    <3> QED
      BY <1>8, <2>1, <3>1 DEF Version, ReadBetween, RanBetween, LeanPassed, Judged
  <2> QED
    BY <1>5, <1>8, <2>2 DEF Version
<1>9. CASE ReadRecords
  <2>1. UNCHANGED <<pc, result, history, past, runtime, blurred, walk, tree>>
    BY <1>9 DEF ReadRecords, verifierVars, vars, lockVars, treeVars, runtimeVars
  <2>2. CASE /\ Validation \in DOMAIN tree
             /\ check' = [check EXCEPT !.phase = "sample",
                                       !.records = tree[Validation].content]
    <3>1. tree[Validation].content \in Content
      BY <2>2, StampType DEF LockInv, Entry
    <3>2. /\ CheckTypes' /\ check'.report = "none" /\ check'.phase = "sample"
          /\ check'.identity = check.identity
          /\ check'.records = tree[Validation].content
          /\ check.phase = "records" /\ walk.stage = "idle"
      BY <1>9, <2>1, <2>2, <3>1 DEF ReadRecords, CheckTypes
    <3>3. ReadAt(Len(history))'
      BY <1>h, <2>1, <2>2, <3>2, ContentsType, StampType DEF ReadAt, LockInv
    <3>4. ReadBetween => ReadBetween'
      BY <1>h, <2>1, <3>2, <3>3 DEF ReadBetween, ReadAt, Judged
    <3> QED
      BY <2>1, <3>2, <3>4 DEF RanBetween, LeanPassed, Judged
  <2> QED
    BY <1>5, <1>9, <2>2 DEF ReadRecords
<1>10. CASE RunSample
  <2>1. UNCHANGED <<history, past, runtime, blurred, walk>>
    BY <1>10 DEF RunSample, lockVars, treeVars, runtimeVars
  <2>2. CASE pc = "start"
    <3>1. /\ CheckTypes' /\ check'.report = "none" /\ check'.phase = "sample"
          /\ check'.identity = check.identity
          /\ check'.records = check.records
          /\ check'.used = runtime.content
      BY <1>10, <2>1, <2>2 DEF RunSample, CheckTypes
    <3>2. past[Len(past)] = runtime.content /\ Len(past) \in DOMAIN past
      BY <1>h DEF CheckTypes
    <3>3. RanBetween'
      BY <1>h, <1>10, <2>1, <3>1, <3>2 DEF RanBetween, RunSample, Judged
    <3> QED
      BY <1>10, <2>1, <3>1, <3>3 DEF RunSample, ReadBetween, ReadAt, LeanPassed, Judged
  <2>3. CASE pc # "start"
    <3>1. check' = check /\ check.phase = "sample" /\ check.report = "none"
      BY <1>10, <2>3 DEF RunSample, CheckTypes
    <3>2. CheckTypes'
      BY <2>1, <3>1 DEF CheckTypes
    <3> QED
      BY <2>1, <2>3, <3>1, <3>2 DEF ReadBetween, ReadAt, RanBetween, LeanPassed, Judged
  <2> QED
    BY <2>2, <2>3
<1>11. CASE JudgeSample
  <2>1. UNCHANGED <<pc, result, history, past, runtime, blurred, walk>>
    BY <1>11 DEF JudgeSample, verifierVars, vars, lockVars, treeVars, runtimeVars
  <2>2. CASE /\ pc = "done"
             /\ check' = [check EXCEPT !.phase = "close_runtime",
                                       !.failed = (result # "PASS")]
    <3>1. /\ CheckTypes' /\ check'.report = "none" /\ check'.phase = "close_runtime"
          /\ check'.identity = check.identity
          /\ check'.records = check.records
          /\ check'.used = check.used
          /\ check'.failed = (result # "PASS")
          /\ check.phase = "sample"
      BY <1>11, <2>1, <2>2 DEF JudgeSample, CheckTypes
    <3> QED
      BY ZenonT(60), <2>1, <2>2, <3>1 DEF ReadBetween, ReadAt, RanBetween, LeanPassed, Judged
  <2>3. CASE check' = [check EXCEPT !.phase = "reported",
                         !.report = IF "interrupt" \in trouble THEN "none"
                                                              ELSE "ERROR"]
    <3>1. /\ check'.phase = "reported" /\ check'.report \in {"none", "ERROR"}
          /\ CheckTypes'
      BY <1>11, <2>1, <2>3 DEF JudgeSample, CheckTypes
    <3> QED
      BY <3>1 DEF ReadBetween, RanBetween, LeanPassed, Judged
  <2> QED
    BY <1>11, <2>2, <2>3 DEF JudgeSample
<1>12. CASE GroupRuns
  <2>1. UNCHANGED <<pc, result, history, past, runtime, blurred, walk, check>>
    BY <1>12 DEF GroupRuns, Group, LeaderExits, Fork, ClosePipe,
       ChildExits, lockVars, treeVars, runtimeVars
  <2> QED
    BY <1>1, <2>1 DEF CheckTypes
<1>13. CASE InterruptSample
  <2>1. /\ UNCHANGED <<result, history, past, runtime, blurred, walk, check>>
        /\ check.phase = "sample" /\ pc # "start"
    BY <1>13 DEF InterruptSample, Interrupted, lockVars, treeVars, runtimeVars
  <2>2. CheckTypes'
    BY <2>1 DEF CheckTypes
  <2> QED
    BY <2>1, <2>2 DEF ReadBetween, ReadAt, RanBetween, LeanPassed, Judged
<1>14. CASE UNCHANGED checkVars
  BY <1>1, <1>14 DEF checkVars, verifierVars, vars, lockVars, treeVars,
     runtimeVars, CheckTypes
<1> QED
  BY <1>2, <1>3, <1>4, <1>6, <1>7, <1>8, <1>9, <1>10, <1>11, <1>12, <1>13,
     <1>14 DEF CheckNext, Checker

(* A PASS report speaks of the benchmark and the runtime it names, for any *)
(* files, builds and number of edits.                                      *)
THEOREM PassIsOfWhatIsLocked == CheckSpec => []PassSpeaksOfWhatIsLocked
<1>1. LockInv /\ ReportInv => PassSpeaksOfWhatIsLocked
  <2> SUFFICES ASSUME LockInv, ReportInv, check.report = "PASS", ~blurred,
                      ~CameBack(history), ~CameBack(past)
               PROVE  /\ check.records = Locked[Validation]
                      /\ check.used = check.identity
                      /\ result = "PASS"
    BY DEF PassSpeaksOfWhatIsLocked
  <2>1. PICK i, m, k \in DOMAIN history :
          /\ i <= m /\ m <= k
          /\ history[i] = Locked
          /\ ReadAt(m)
          /\ history[k] = Locked
    BY DEF ReportInv, ReadBetween
  <2>2. history[m] = Locked
    BY <2>1 DEF CameBack, LockInv, TreeTypes
  <2>3. PICK a, b, c \in DOMAIN past :
          /\ a <= b /\ b <= c
          /\ past[a] = check.identity
          /\ past[b] = check.used
          /\ past[c] = check.identity
    BY DEF ReportInv, RanBetween
  <2>4. check.used = check.identity
    BY <2>3 DEF CameBack, ReportInv, CheckTypes
  <2> QED
    BY <2>1, <2>2, <2>4 DEF ReadAt, ReportInv, LeanPassed
<1>2. CheckInit => LockInv /\ ReportInv
  BY LockInit, ReportInit
<1>3. LockInv /\ ReportInv /\ [CheckNext]_checkVars => (LockInv /\ ReportInv)'
  BY LockNext, ReportNext
<1> QED
  BY <1>1, <1>2, <1>3, PTL DEF CheckSpec
=============================================================================
