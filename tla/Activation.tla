------------------------------ MODULE Activation ------------------------------
(***************************************************************************)
(* The activation artifacts of Goal 1: the trust root and the execution    *)
(* authority in goal1/.  Provisioners publish the pair                     *)
(* (provision_repository_execution_authority of confirmatory_supervisor.py)*)
(* and loaders mint a capability from it (load_execution_authority of      *)
(* execution_authority.py), each process reading and linking one file at a *)
(* time.  A file is named by the provisioner that wrote it.                *)
(***************************************************************************)
EXTENDS Naturals, FiniteSets

CONSTANTS
  Provisioner,  \* runs of provision_repository_execution_authority
  Loader,       \* processes that call load_execution_authority
  Key,          \* root keys
  RootKey,      \* the root key each provisioner signs with
  NoFile        \* a path with no file

ASSUME NoFileAssumption == NoFile \notin Provisioner
ASSUME RootKeyAssumption == RootKey \in [Provisioner -> Key]
ASSUME LoaderAssumption == Loader \cap Provisioner = {}

VARIABLES
  trust,      \* CONFIRMATORY_TRUST_ROOT.json
  authority,  \* CONFIRMATORY_EXECUTION_AUTHORITY.json
  pc,         \* where each provisioner stands
  published,  \* the list of the same name, of each provisioner
  lpc,        \* where each loader stands
  root,       \* the trust root a loader or a reloading provisioner has read
  minted,     \* history: the authorities capabilities were minted from
  committed,  \* history: the provisioners that linked their trust root
  fault       \* history: something failed, was interrupted or crashed

files == <<trust, authority>>
pvars == <<pc, published>>
lvars == <<lpc, minted>>
history == <<committed, fault>>
vars == <<files, pvars, lvars, root, history>>

Artifact == {"authority", "trust"}

PC == {"check_trust", "check_authority", "preflight",
       "recheck_trust", "recheck_authority", "stage",
       "link_authority", "append_authority", "link_trust", "append_trust",
       "reload_trust", "reload_authority",
       "rollback_trust", "rollback_authority",
       "withdraw_trust", "withdraw_authority",
       "returned", "raised", "crashed"}

Ended == {"returned", "raised", "crashed"}

Init ==
  /\ trust = NoFile
  /\ authority = NoFile
  /\ pc = [p \in Provisioner |-> "check_trust"]
  /\ published = [p \in Provisioner |-> {}]
  /\ lpc = [l \in Loader |-> "read_trust"]
  /\ root = [x \in Provisioner \cup Loader |-> NoFile]
  /\ minted = {}
  /\ committed = {}
  /\ fault = FALSE

Goto(p, label) == pc' = [pc EXCEPT ![p] = label]

(* Mutant: any authority that is there is accepted, whoever signed it.     *)
AcceptAnySignature(r, a) == a # NoFile

(* _validate_authority_artifact: there is an authority and its signature   *)
(* verifies under the root key of the trust root.                          *)
Validates(r, a) == a # NoFile /\ RootKey[r] = RootKey[a]

-----------------------------------------------------------------------------
(* Before the publication.                                                 *)

(* Both paths are looked at twice, by the provisioner and by the writer.   *)
Check(p) ==
  /\ \/ pc[p] \in {"check_trust", "recheck_trust"} /\ trust # NoFile
     \/ pc[p] \in {"check_authority", "recheck_authority"} /\ authority # NoFile
  /\ Goto(p, "raised")
  /\ UNCHANGED <<files, published, lvars, root, history>>

Pass(p) ==
  /\ \/ /\ pc[p] \in {"check_trust", "recheck_trust"}
        /\ trust = NoFile
        /\ Goto(p, IF pc[p] = "check_trust" THEN "check_authority"
                   ELSE "recheck_authority")
     \/ /\ pc[p] \in {"check_authority", "recheck_authority"}
        /\ authority = NoFile
        /\ Goto(p, IF pc[p] = "check_authority" THEN "preflight" ELSE "stage")
  /\ UNCHANGED <<files, published, lvars, root, history>>

(* The bindings, keys and preflight of the launcher, and the sealing.      *)
Preflight(p) ==
  /\ pc[p] = "preflight"
  /\ \/ Goto(p, "recheck_trust") /\ UNCHANGED fault
     \/ Goto(p, "raised") /\ fault' = TRUE
  /\ UNCHANGED <<files, published, lvars, root, committed>>

(* The temporary files are written; nobody else knows their names.         *)
Stage(p) ==
  /\ pc[p] = "stage"
  /\ Goto(p, "link_authority")
  /\ UNCHANGED <<files, published, lvars, root, history>>

-----------------------------------------------------------------------------
(* The publication.  os.link fails when the path exists.                   *)

(* Mutant: os.replace instead of os.link.                                  *)
ReplaceAuthority(p) ==
  /\ pc[p] = "link_authority"
  /\ authority' = p
  /\ Goto(p, "append_authority")
  /\ UNCHANGED <<trust, published, lvars, root, history>>

LinkAuthority(p) ==
  /\ pc[p] = "link_authority"
  /\ \/ /\ authority = NoFile
        /\ authority' = p
        /\ Goto(p, "append_authority")
     \/ /\ authority # NoFile
        /\ Goto(p, "rollback_trust")
        /\ UNCHANGED authority
  /\ UNCHANGED <<trust, published, lvars, root, history>>

LinkTrust(p) ==
  /\ pc[p] = "link_trust"
  /\ \/ /\ trust = NoFile
        /\ trust' = p
        /\ committed' = committed \cup {p}
        /\ Goto(p, "append_trust")
     \/ /\ trust # NoFile
        /\ Goto(p, "rollback_trust")
        /\ UNCHANGED <<trust, committed>>
  /\ UNCHANGED <<authority, published, lvars, root, fault>>

(* Mutant: what was linked is recorded when everything is.                 *)
AppendAtTheEnd(p) ==
  /\ \/ /\ pc[p] = "append_authority"
        /\ Goto(p, "link_trust")
        /\ UNCHANGED published
     \/ /\ pc[p] = "append_trust"
        /\ published' = [published EXCEPT ![p] = Artifact]
        /\ Goto(p, "reload_trust")
  /\ UNCHANGED <<files, lvars, root, history>>

Append(p) ==
  /\ \/ /\ pc[p] = "append_authority"
        /\ published' = [published EXCEPT ![p] = @ \cup {"authority"}]
        /\ Goto(p, "link_trust")
     \/ /\ pc[p] = "append_trust"
        /\ published' = [published EXCEPT ![p] = @ \cup {"trust"}]
        /\ Goto(p, "reload_trust")
  /\ UNCHANGED <<files, lvars, root, history>>

(* A failed write or link, or an interrupt, inside the writer's try.       *)
Interrupt(p) ==
  /\ pc[p] \in {"stage", "link_authority", "append_authority", "link_trust",
                "append_trust"}
  /\ Goto(p, "rollback_trust")
  /\ fault' = TRUE
  /\ UNCHANGED <<files, published, lvars, root, committed>>

-----------------------------------------------------------------------------
(* The reload: load_execution_authority, called by the provisioner.        *)

ReloadTrust(p) ==
  /\ pc[p] = "reload_trust"
  /\ root' = [root EXCEPT ![p] = trust]
  /\ Goto(p, IF trust = NoFile THEN "withdraw_trust" ELSE "reload_authority")
  /\ UNCHANGED <<files, published, lvars, history>>

ReloadAuthority(p) ==
  /\ pc[p] = "reload_authority"
  /\ root' = [root EXCEPT ![p] = NoFile]
  /\ Goto(p, IF Validates(root[p], authority) /\ authority = p THEN "returned"
             ELSE "withdraw_trust")
  /\ UNCHANGED <<files, published, lvars, history>>

(* The bindings no longer load, a read fails, or an interrupt.             *)
ReloadFails(p) ==
  /\ pc[p] \in {"reload_trust", "reload_authority"}
  /\ root' = [root EXCEPT ![p] = NoFile]
  /\ Goto(p, "withdraw_trust")
  /\ fault' = TRUE
  /\ UNCHANGED <<files, published, lvars, committed>>

-----------------------------------------------------------------------------
(* The two handlers.  The writer unlinks what it has recorded as published,*)
(* last first; the provisioner, after a failed reload, unlinks both.  They *)
(* unlink a path, whoever wrote the file.                                  *)

UnlinkTrust(p) ==
  /\ pc[p] \in {"rollback_trust", "withdraw_trust"}
  /\ IF pc[p] = "withdraw_trust" \/ "trust" \in published[p]
     THEN trust' = NoFile
     ELSE UNCHANGED trust
  /\ Goto(p, IF pc[p] = "withdraw_trust" THEN "withdraw_authority"
             ELSE "rollback_authority")
  /\ UNCHANGED <<authority, published, lvars, root, history>>

(* Mutant: the rollback unlinks the authority in every case.               *)
UnlinkAnyAuthority(p) ==
  /\ pc[p] \in {"rollback_authority", "withdraw_authority"}
  /\ authority' = NoFile
  /\ Goto(p, "raised")
  /\ UNCHANGED <<trust, published, lvars, root, history>>

UnlinkAuthority(p) ==
  /\ pc[p] \in {"rollback_authority", "withdraw_authority"}
  /\ IF pc[p] = "withdraw_authority" \/ "authority" \in published[p]
     THEN authority' = NoFile
     ELSE UNCHANGED authority
  /\ Goto(p, "raised")
  /\ UNCHANGED <<trust, published, lvars, root, history>>

(* The process dies, or is interrupted where no handler is active.         *)
Crash(p) ==
  /\ pc[p] \notin Ended
  /\ Goto(p, "crashed")
  /\ fault' = TRUE
  /\ UNCHANGED <<files, published, lvars, root, committed>>

-----------------------------------------------------------------------------
(* Loaders: the trust root first, then the authority.                      *)

ReadTrust(l) ==
  /\ lpc[l] = "read_trust"
  /\ trust # NoFile
  /\ root' = [root EXCEPT ![l] = trust]
  /\ lpc' = [lpc EXCEPT ![l] = "read_authority"]
  /\ UNCHANGED <<files, pvars, minted, history>>

(* An absent or rejected authority, and bindings that do not load, are     *)
(* refused; the process may call again.                                    *)
ReadAuthority(l) ==
  /\ lpc[l] = "read_authority"
  /\ \/ /\ Validates(root[l], authority)
        /\ minted' = minted \cup {authority}
     \/ UNCHANGED minted
  /\ root' = [root EXCEPT ![l] = NoFile]
  /\ lpc' = [lpc EXCEPT ![l] = "read_trust"]
  /\ UNCHANGED <<files, pvars, history>>

-----------------------------------------------------------------------------
Provision(p) ==
  \/ Check(p)
  \/ Pass(p)
  \/ Preflight(p)
  \/ Stage(p)
  \/ LinkAuthority(p)
  \/ Append(p)
  \/ LinkTrust(p)
  \/ Interrupt(p)
  \/ ReloadTrust(p)
  \/ ReloadAuthority(p)
  \/ ReloadFails(p)
  \/ UnlinkTrust(p)
  \/ UnlinkAuthority(p)
  \/ Crash(p)

Load(l) == ReadTrust(l) \/ ReadAuthority(l)

Next ==
  \/ \E p \in Provisioner : Provision(p)
  \/ \E l \in Loader : Load(l)

Spec == Init /\ [][Next]_vars

-----------------------------------------------------------------------------
TypeOK ==
  /\ trust \in Provisioner \cup {NoFile}
  /\ authority \in Provisioner \cup {NoFile}
  /\ pc \in [Provisioner -> PC]
  /\ published \in [Provisioner -> SUBSET Artifact]
  /\ lpc \in [Loader -> {"read_trust", "read_authority"}]
  /\ root \in [Provisioner \cup Loader -> Provisioner \cup {NoFile}]
  /\ minted \subseteq Provisioner
  /\ committed \subseteq Provisioner
  /\ fault \in BOOLEAN

(* What a provisioner that returned has published stays: no handler of     *)
(* another provisioner, which unlinks by path, ever takes it away.         *)
SuccessIsDurable ==
  \A p \in Provisioner : pc[p] = "returned" => trust = p /\ authority = p

(* What the comment on the commit marker says: a capability is only minted *)
(* from an authority whose own provisioner has linked its trust root.      *)
MintedWasCommitted == minted \subseteq committed

(* However the two reads of a loader interleave with publication,          *)
(* withdrawal and replacement, a capability is only minted from an         *)
(* authority signed with the root key of a trust root that was linked: its *)
(* own provisioner's or, when a root key signs twice, one of the same key. *)
MintedUnderALinkedRoot ==
  \A a \in minted : \E r \in committed : RootKey[r] = RootKey[a]

(* Provisioners that race, and meet no fault, do not refuse one another:   *)
(* once all have ended, exactly one has returned.                          *)
RaceHasOneWinner ==
  (~fault /\ Provisioner # {} /\ \A p \in Provisioner : pc[p] \in Ended) =>
    Cardinality({p \in Provisioner : pc[p] = "returned"}) = 1

(* A provisioner that raised has withdrawn whatever it had recorded as     *)
(* published, and of what it linked but could not record, for an interrupt *)
(* between the two, at most one file is left: never a pair that loads.     *)
RaisedWithdraws ==
  \A p \in Provisioner :
    pc[p] = "raised" =>
      /\ "trust" \in published[p] => trust # p
      /\ "authority" \in published[p] => authority # p
      /\ ~(trust = p /\ authority = p)

(* Whoever races, loses or is interrupted: what a provisioner that raised  *)
(* had published is gone, and without a fault one of them has returned.    *)
RacesEndWell == RaisedWithdraws /\ RaceHasOneWinner

(* An authority stranded by a crash before the trust root was linked.      *)
Stranded ==
  /\ trust = NoFile
  /\ \E p \in Provisioner : authority = p /\ pc[p] \in Ended

(* A stranded authority keeps the experiment closed for good: no loader    *)
(* ever finds a trust root, and no provisioner can replace the pair.       *)
StrandedStaysClosed == [][Stranded => Stranded']_vars
=============================================================================
