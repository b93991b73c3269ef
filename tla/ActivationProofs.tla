--------------------------- MODULE ActivationProofs ---------------------------
(***************************************************************************)
(* Proofs about Activation, for any provisioners, loaders and keys.        *)
(*                                                                         *)
(* The properties rest on who owns a path: as long as a provisioner is     *)
(* between its link and the last step that may unlink, the path holds its  *)
(* own file, so no handler that unlinks by path can hit another's.         *)
(***************************************************************************)
EXTENDS Activation, FiniteSetTheorems, TLAPS

-----------------------------------------------------------------------------
(* The inductive invariant.                                                *)

BeforeAuthority == {"check_trust", "check_authority", "preflight",
                    "recheck_trust", "recheck_authority", "stage",
                    "link_authority", "append_authority"}

OwnsAuthority(p) ==
  \/ pc[p] \in {"append_authority", "link_trust", "append_trust",
                "reload_trust", "reload_authority", "withdraw_trust",
                "withdraw_authority", "returned"}
  \/ /\ pc[p] \in {"rollback_trust", "rollback_authority"}
     /\ "authority" \in published[p]

OwnsTrust(p) ==
  \/ pc[p] \in {"append_trust", "reload_trust", "reload_authority",
                "withdraw_trust", "returned"}
  \/ pc[p] = "rollback_trust" /\ "trust" \in published[p]

Owners ==
  \A p \in Provisioner :
    /\ OwnsAuthority(p) => authority = p
    /\ OwnsTrust(p) => trust = p

Recorded ==
  \A p \in Provisioner :
    /\ pc[p] \in BeforeAuthority => published[p] = {}
    /\ pc[p] \in {"link_trust", "append_trust"} => published[p] = {"authority"}
    /\ trust = p => "authority" \in published[p]

Withdrawn ==
  \A p \in Provisioner :
    /\ pc[p] \in {"rollback_authority", "withdraw_authority", "raised"} =>
         ("trust" \in published[p] => trust # p)
    /\ pc[p] = "raised" => ("authority" \in published[p] => authority # p)

Roots ==
  /\ trust # NoFile => trust \in committed
  /\ \A x \in Provisioner \cup Loader : root[x] # NoFile => root[x] \in committed
  /\ \A l \in Loader : lpc[l] = "read_authority" => root[l] # NoFile

(* Where a provisioner that meets no fault can be.                         *)
FaultFree(p) ==
  /\ pc[p] \notin {"crashed", "withdraw_trust", "withdraw_authority"}
  /\ pc[p] \in {"rollback_trust", "rollback_authority", "raised"} =>
       published[p] = {} /\ authority # NoFile
  /\ authority = p => OwnsAuthority(p)
  /\ trust = p => OwnsTrust(p) /\ pc[p] # "rollback_trust"
  /\ pc[p] = "reload_authority" => root[p] = p

NoFault == ~fault => \A p \in Provisioner : FaultFree(p)

IInv == TypeOK /\ Owners /\ Recorded /\ Withdrawn /\ Roots /\ NoFault

-----------------------------------------------------------------------------
(* No file is there and no provisioner has passed its first check.         *)
LEMMA InitIInv == Init => IInv
  BY ZenonT(60), NoFileAssumption
  DEF Init, IInv, TypeOK, PC, Owners, OwnsAuthority, OwnsTrust, Recorded,
      BeforeAuthority, Withdrawn, Roots, NoFault, FaultFree

(* Every step of a provisioner or loader keeps the variables in their      *)
(* types.                                                                  *)
LEMMA NextType == TypeOK /\ [Next]_vars => TypeOK'
<1> SUFFICES ASSUME TypeOK, [Next]_vars PROVE TypeOK'
  OBVIOUS
<1> USE NoFileAssumption DEF TypeOK, PC, Goto, files, pvars, lvars, history
<1>1. ASSUME NEW p \in Provisioner, Provision(p) PROVE TypeOK'
  <2>1. CASE Check(p) \/ Pass(p) \/ Preflight(p) \/ Stage(p)
    BY <2>1 DEF Check, Pass, Preflight, Stage
  <2>2. CASE LinkAuthority(p) \/ LinkTrust(p)
    BY <2>2 DEF LinkAuthority, LinkTrust
  <2>3. CASE Append(p)
    BY <2>3 DEF Append, Artifact
  <2>4. CASE Interrupt(p) \/ Crash(p)
    BY <2>4 DEF Interrupt, Crash
  <2>5. CASE ReloadTrust(p)
    BY <2>5 DEF ReloadTrust
  <2>6. CASE ReloadAuthority(p)
    BY <2>6 DEF ReloadAuthority
  <2>7. CASE ReloadFails(p)
    BY <2>7 DEF ReloadFails
  <2>8. CASE UnlinkTrust(p) \/ UnlinkAuthority(p)
    BY <2>8 DEF UnlinkTrust, UnlinkAuthority
  <2> QED
    BY <1>1, <2>1, <2>2, <2>3, <2>4, <2>5, <2>6, <2>7, <2>8 DEF Provision
<1>2. ASSUME NEW l \in Loader, Load(l) PROVE TypeOK'
  BY <1>2 DEF Load, ReadTrust, ReadAuthority, Validates
<1>3. CASE UNCHANGED vars
  BY <1>3 DEF vars
<1> QED
  BY <1>1, <1>2, <1>3 DEF Next

(* The rest of the invariant is kept by every step.  Each action is taken  *)
(* by one provisioner; what the others own is told from its own path.      *)
LEMMA NextIInv == IInv /\ [Next]_vars => IInv'
<1> SUFFICES ASSUME IInv, [Next]_vars PROVE IInv'
  OBVIOUS
<1>t. TypeOK'
  BY NextType DEF IInv
<1> USE NoFileAssumption, LoaderAssumption
    DEF IInv, TypeOK, Goto, files, pvars, lvars, history
<1> DEFINE Rest == Owners /\ Recorded /\ Withdrawn /\ Roots /\ NoFault
<1>1. ASSUME NEW p \in Provisioner, Provision(p) PROVE Rest'
  <2>1. CASE Check(p)
    BY <2>1, <1>t
    DEF Check, Owners, OwnsAuthority, OwnsTrust, Recorded, BeforeAuthority,
        Withdrawn, Roots, NoFault, FaultFree
  <2>2. CASE Pass(p)
    BY <2>2, <1>t
    DEF Pass, Owners, OwnsAuthority, OwnsTrust, Recorded, BeforeAuthority,
        Withdrawn, Roots, NoFault, FaultFree
  <2>3. CASE Preflight(p)
    BY <2>3, <1>t
    DEF Preflight, Owners, OwnsAuthority, OwnsTrust, Recorded,
        BeforeAuthority, 
        Withdrawn, Roots, NoFault, FaultFree
  <2>4. CASE Stage(p)
    BY <2>4, <1>t
    DEF Stage, Owners, OwnsAuthority, OwnsTrust, Recorded, BeforeAuthority,
        Withdrawn, Roots, NoFault, FaultFree
  <2>5. CASE LinkAuthority(p)
    BY <2>5, <1>t
    DEF LinkAuthority, Owners, OwnsAuthority, OwnsTrust, Recorded,
        BeforeAuthority, 
        Withdrawn, Roots, NoFault, FaultFree
  <2>6. CASE Append(p)
    BY <2>6, <1>t
    DEF Append, Owners, OwnsAuthority, OwnsTrust, Recorded, BeforeAuthority,
        Withdrawn, Roots, NoFault, FaultFree
  <2>7. CASE LinkTrust(p)
    BY <2>7, <1>t
    DEF LinkTrust, Owners, OwnsAuthority, OwnsTrust, Recorded,
        BeforeAuthority, 
        Withdrawn, Roots, NoFault, FaultFree
  <2>8. CASE Interrupt(p)
    BY <2>8, <1>t
    DEF Interrupt, Owners, OwnsAuthority, OwnsTrust, Recorded,
        BeforeAuthority, 
        Withdrawn, Roots, NoFault, FaultFree
  <2>9. CASE ReloadTrust(p)
    BY <2>9, <1>t
    DEF ReloadTrust, Owners, OwnsAuthority, OwnsTrust, Recorded,
        BeforeAuthority, 
        Withdrawn, Roots, NoFault, FaultFree
  <2>10. CASE ReloadAuthority(p)
    BY <2>10, <1>t
    DEF ReloadAuthority, Owners, OwnsAuthority, OwnsTrust, Recorded,
        BeforeAuthority, 
        Withdrawn, Roots, NoFault, FaultFree, Validates
  <2>11. CASE ReloadFails(p)
    BY <2>11, <1>t
    DEF ReloadFails, Owners, OwnsAuthority, OwnsTrust, Recorded,
        BeforeAuthority, 
        Withdrawn, Roots, NoFault, FaultFree
  <2>12. CASE UnlinkTrust(p)
    BY <2>12, <1>t
    DEF UnlinkTrust, Owners, OwnsAuthority, OwnsTrust, Recorded,
        BeforeAuthority, 
        Withdrawn, Roots, NoFault, FaultFree
  <2>13. CASE UnlinkAuthority(p)
    BY <2>13, <1>t
    DEF UnlinkAuthority, Owners, OwnsAuthority, OwnsTrust, Recorded,
        BeforeAuthority, 
        Withdrawn, Roots, NoFault, FaultFree
  <2>14. CASE Crash(p)
    BY <2>14, <1>t
    DEF Crash, Owners, OwnsAuthority, OwnsTrust, Recorded, BeforeAuthority,
        Withdrawn, Roots, NoFault, FaultFree
  <2> QED
    BY <1>1, <2>1, <2>2, <2>3, <2>4, <2>5, <2>6, <2>7, <2>8, <2>9, <2>10,
       <2>11, <2>12, <2>13, <2>14
    DEF Provision
<1>2. ASSUME NEW l \in Loader, Load(l) PROVE Rest'
  BY <1>2, <1>t
  DEF Load, ReadTrust, ReadAuthority, Owners, OwnsAuthority, OwnsTrust,
      Recorded, BeforeAuthority, Withdrawn, Roots, NoFault, FaultFree
<1>3. CASE UNCHANGED vars
  BY <1>3
  DEF vars, Owners, OwnsAuthority, OwnsTrust, Recorded, BeforeAuthority,
      Withdrawn, Roots, NoFault, FaultFree
<1>4. Rest'
  BY <1>1, <1>2, <1>3 DEF Next
<1> QED
  BY <1>t, <1>4
-----------------------------------------------------------------------------
(* The theorems.                                                           *)

(* The invariant holds in every reachable state.                           *)
LEMMA Invariance == Spec => []IInv
<1>1. Init => IInv
  BY InitIInv
<1>2. IInv /\ [Next]_vars => IInv'
  BY NextIInv
<1> QED
  BY <1>1, <1>2, PTL DEF Spec

(* Every variable of the activation keeps its type.                        *)
THEOREM TypeCorrect == Spec => []TypeOK
<1>1. IInv => TypeOK
  BY DEF IInv
<1> QED
  BY <1>1, Invariance, PTL

(* A published pair whose provisioner returned is never withdrawn by the   *)
(* unlinks of another one's handlers.                                      *)
THEOREM SuccessDurable == Spec => []SuccessIsDurable
<1>1. IInv => SuccessIsDurable
  BY DEF IInv, Owners, OwnsAuthority, OwnsTrust, SuccessIsDurable
<1> QED
  BY <1>1, Invariance, PTL

(* The handlers of a provisioner that raised have taken back everything it *)
(* recorded as published, and no pair of its own is left, wherever it was  *)
(* interrupted.                                                            *)
THEOREM RaisedWithdrawn == Spec => []RaisedWithdraws
<1>1. IInv => RaisedWithdraws
  BY DEF IInv, Recorded, Withdrawn, RaisedWithdraws
<1> QED
  BY <1>1, Invariance, PTL

(* One provisioner of a race without faults returns, and only one: the     *)
(* authority, which is linked first, decides for both paths.               *)
THEOREM OneWinner == Spec => []RaceHasOneWinner
<1>1. ASSUME IInv, ~fault, NEW p \in Provisioner,
             \A q \in Provisioner : pc[q] \in Ended
      PROVE  Cardinality({q \in Provisioner : pc[q] = "returned"}) = 1
  <2>1. authority \in Provisioner
    <3>1. FaultFree(p) /\ pc[p] \in {"returned", "raised"}
      BY <1>1 DEF IInv, NoFault, FaultFree, Ended
    <3>2. pc[p] = "returned" => authority = p
      BY <1>1 DEF IInv, Owners, OwnsAuthority
    <3> QED
      BY <1>1, <3>1, <3>2 DEF FaultFree, IInv, TypeOK
  <2>2. pc[authority] = "returned"
    BY <1>1, <2>1 DEF IInv, NoFault, FaultFree, OwnsAuthority, Ended
  <2>3. \A q \in Provisioner : pc[q] = "returned" => q = authority
    BY <1>1 DEF IInv, Owners, OwnsAuthority
  <2>4. {q \in Provisioner : pc[q] = "returned"} = {authority}
    BY <2>1, <2>2, <2>3
  <2> QED
    BY <2>4, FS_Singleton
<1>2. IInv => RaceHasOneWinner
  BY <1>1 DEF RaceHasOneWinner
<1> QED
  BY <1>2, Invariance, PTL

(* Races end well, for any number of provisioners.                         *)
THEOREM EndsWell == Spec => []RacesEndWell
BY RaisedWithdrawn, OneWinner, PTL DEF RacesEndWell

(* A crash that leaves an authority without its trust root closes the      *)
(* experiment until someone removes the file by hand.                      *)
THEOREM StrandedForever == Spec => StrandedStaysClosed
<1>1. ASSUME IInv, Next, Stranded PROVE Stranded'
  <2>1. PICK p \in Provisioner : authority = p /\ pc[p] \in Ended
    BY <1>1 DEF Stranded
  <2>2. \A q \in Provisioner : q # p => ~OwnsAuthority(q) /\ ~OwnsTrust(q)
    BY <1>1, <2>1, NoFileAssumption DEF IInv, Owners, Stranded
  <2>3. trust = NoFile /\ authority # NoFile
    BY <1>1, <2>1, NoFileAssumption DEF Stranded
  <2>4. ASSUME NEW q \in Provisioner, Provision(q)
        PROVE  trust' = NoFile /\ authority' = p /\ pc'[p] = pc[p]
    <3>1. q # p
      BY <2>1, <2>4
      DEF Provision, Ended, Check, Pass, Preflight, Stage, LinkAuthority,
          Append, LinkTrust, Interrupt, ReloadTrust, ReloadAuthority,
          ReloadFails, UnlinkTrust, UnlinkAuthority, Crash
    <3>2. ~OwnsAuthority(q) /\ ~OwnsTrust(q)
      BY <2>2, <3>1
    <3>3. pc'[p] = pc[p]
      BY <1>1, <2>4, <3>1
      DEF IInv, TypeOK, Goto, Provision, Check, Pass, Preflight, Stage,
          LinkAuthority, Append, LinkTrust, Interrupt, ReloadTrust,
          ReloadAuthority, ReloadFails, UnlinkTrust, UnlinkAuthority, Crash
    <3>4. trust' = NoFile
      BY <2>3, <2>4, <3>2
      DEF OwnsAuthority, files, Provision, Check, Pass, Preflight, Stage,
          LinkAuthority, Append, LinkTrust, Interrupt, ReloadTrust,
          ReloadAuthority, ReloadFails, UnlinkTrust, UnlinkAuthority, Crash
    <3>5. authority' = p
      BY <2>1, <2>3, <2>4, <3>2
      DEF OwnsAuthority, files, Provision, Check, Pass, Preflight, Stage,
          LinkAuthority, Append, LinkTrust, Interrupt, ReloadTrust,
          ReloadAuthority, ReloadFails, UnlinkTrust, UnlinkAuthority, Crash
    <3> QED
      BY <3>3, <3>4, <3>5
  <2>5. ASSUME NEW l \in Loader, Load(l) PROVE Stranded'
    BY <1>1, <2>5 DEF Load, ReadTrust, ReadAuthority, files, pvars, Stranded
  <2> QED
    BY <1>1, <2>1, <2>4, <2>5 DEF Next, Stranded
<1>2. IInv /\ [Next]_vars => [Stranded => Stranded']_vars
  BY <1>1
<1> QED
  BY <1>2, Invariance, PTL DEF Spec, StrandedStaysClosed

-----------------------------------------------------------------------------
(* The commit marker.                                                      *)

(* A capability is only minted from an authority signed with the root key  *)
(* of a trust root that was linked, however the loader's two reads         *)
(* interleave with publication and withdrawal.                             *)
THEOREM MintedUnderRoot == Spec => []MintedUnderALinkedRoot
<1>1. Init => MintedUnderALinkedRoot
  BY DEF Init, MintedUnderALinkedRoot
<1>2. ASSUME IInv, MintedUnderALinkedRoot, Next PROVE MintedUnderALinkedRoot'
  <2>1. ASSUME NEW p \in Provisioner, Provision(p) PROVE MintedUnderALinkedRoot'
    <3>1. minted' = minted /\ committed \subseteq committed'
      BY <2>1
      DEF lvars, history, Provision, Check, Pass, Preflight, Stage,
          LinkAuthority, Append, LinkTrust, Interrupt, ReloadTrust,
          ReloadAuthority, ReloadFails, UnlinkTrust, UnlinkAuthority, Crash
    <3> QED
      BY <1>2, <3>1 DEF MintedUnderALinkedRoot
  <2>2. ASSUME NEW l \in Loader, ReadAuthority(l) PROVE MintedUnderALinkedRoot'
    <3>1. root[l] \in committed
      BY <1>2, <2>2 DEF IInv, Roots, ReadAuthority
    <3>2. committed' = committed
      BY <2>2 DEF ReadAuthority, history
    <3>3. minted' = minted \/ (Validates(root[l], authority)
                                /\ minted' = minted \cup {authority})
      BY <2>2 DEF ReadAuthority
    <3> QED
      BY <1>2, <3>1, <3>2, <3>3 DEF MintedUnderALinkedRoot, Validates
  <2>3. ASSUME NEW l \in Loader, ReadTrust(l) PROVE MintedUnderALinkedRoot'
    BY <1>2, <2>3 DEF ReadTrust, MintedUnderALinkedRoot, history
  <2> QED
    BY <1>2, <2>1, <2>2, <2>3 DEF Next, Load
<1>3. IInv /\ MintedUnderALinkedRoot /\ [Next]_vars => MintedUnderALinkedRoot'
  BY <1>2 DEF vars, lvars, history, MintedUnderALinkedRoot
<1> QED
  BY <1>1, <1>3, Invariance, PTL DEF Spec
=============================================================================
