------------------------------- MODULE Dispatch -------------------------------
(***************************************************************************)
(* The dispatch authority of supernova_goal1/dispatch.py for one run_id,   *)
(* and the processes that use it.                                          *)
(*                                                                         *)
(* The SQLite file holds three tables.  A writer's transaction starts with *)
(* BEGIN IMMEDIATE, so register, close and abort are each one atomic       *)
(* action; a transaction that raises is rolled back, so a rejected call    *)
(* changes nothing and is a stuttering step.  Readers run in autocommit:   *)
(* each SELECT of current_manifest and read_closed_join is an action of    *)
(* its own and a writer may commit between two of them.                    *)
(*                                                                         *)
(* A process keeps in memory its copy of the manifest, the signers it      *)
(* generated, and the completion records it was given; a crash loses them. *)
(*                                                                         *)
(* SHA-256 is symbolic: a digest is the record of what it digests, so two  *)
(* digests are equal exactly when their contents are.  The predecessor     *)
(* link of an entry is its position in the sequence.                       *)
(***************************************************************************)
EXTENDS Naturals, Sequences, SequencesExt

CONSTANTS
  Process,     \* executors and coordinators sharing one database file
  Request,     \* frozen problem requests of the run
  Key,         \* logical keys: (problem_id, arm, attempt_index)
  LogicalKey,  \* [Request -> Key]
  Signer,      \* completion signers that may ever be generated
  Outcome,     \* evidence pairs [attempt, receipt] an execution may end with
  MaxBatch     \* bound: longest tuple of records passed to close

-----------------------------------------------------------------------------
(* Typed execution evidence.                                               *)

AttemptStatus  == {"ANSWERED", "NO_ANSWER", "ERROR"}
VerifierStatus == {"PASS", "FAIL", "TIMEOUT", "ERROR"}

(* CompletionPayload refuses a receipt without an answer and an answer     *)
(* without a receipt.                                                      *)
ValidOutcome ==
  {o \in [attempt : AttemptStatus, receipt : VerifierStatus \cup {"none"}] :
     o.attempt = "ANSWERED" <=> o.receipt # "none"}

CompletionStatus(o) ==
  CASE o.attempt = "ERROR"      -> "ERROR"
    [] o.attempt = "NO_ANSWER"  -> "FAILED"
    [] o.receipt = "PASS"       -> "SUCCEEDED"
    [] o.receipt = "FAIL"       -> "FAILED"
    [] o.receipt = "TIMEOUT"    -> "TIMEOUT"
    [] OTHER                    -> "ERROR"

ASSUME KeyAssumption     == LogicalKey \in [Request -> Key]
ASSUME OutcomeAssumption == Outcome \subseteq ValidOutcome
ASSUME BatchAssumption   == MaxBatch \in Nat

-----------------------------------------------------------------------------
VARIABLES
  row,          \* the run's row of dispatch_state
  entries,      \* its rows of dispatch_entries, by sequence
  completions,  \* its rows of dispatch_completions, by sequence
  pc,           \* where each process stands
  view,         \* the DispatchManifest each process holds
  keyring,      \* the CompletionSigners each process holds in memory
  records,      \* the CompletionRecords each process holds in memory
  scan,         \* what a multi-SELECT read has fetched so far
  join,         \* the last CompletionJoin each process was returned
  signed        \* every record ever signed: a signer in it has been used

db   == <<row, entries, completions>>
mem  == <<pc, view, keyring, records, scan, join>>
vars == <<row, entries, completions, pc, view, keyring, records, scan, join,
          signed>>

Entry == [sequence : Nat, request : Request, verifier : Signer]

Record ==
  [entry : Entry, request : Request, outcome : Outcome, signer : Signer]

ManifestDigest(m) == [manifest |-> m]

CompletionSetDigest(head, recs) == [manifest |-> head, records |-> recs]

CloseReceipt(head, set) ==
  [kind |-> "close", manifest |-> head, completions |-> set]

AbortReceipt(head) == [kind |-> "abort", manifest |-> head]

NoReceipt == [kind |-> "none"]
NoJoin    == [kind |-> "none"]
NoScan    == [kind |-> "none"]

Digest == [manifest : Seq(Entry)]

Receipt ==
  {NoReceipt}
    \cup [kind : {"abort"}, manifest : Digest]
    \cup [kind : {"close"}, manifest : Digest,
          completions : [manifest : Digest, records : Seq(Record)]]

TerminalState == {"OPEN", "CLOSED", "ABORTED"}

StateRow ==
  [head : Digest, terminal : TerminalState \cup {"ABSENT"}, receipt : Receipt]

Join ==
  {NoJoin} \cup
  [kind : {"join"}, manifest : Seq(Entry), records : Seq(Record),
   receipt : Receipt]

(* What a read has fetched: the entries, and the dispatch_state row of the *)
(* later SELECT.  own marks the readback that close itself performs.       *)
Scan ==
  {NoScan}
    \cup [kind : {"entries"}, manifest : Seq(Entry), own : BOOLEAN]
    \cup [kind : {"state"}, manifest : Seq(Entry), own : BOOLEAN,
          state : StateRow]

PC == {"down", "idle", "manifest_head", "join_entries", "join_head",
       "join_state", "join_rows"}

Init ==
  /\ row = [head |-> ManifestDigest(<<>>), terminal |-> "ABSENT",
            receipt |-> NoReceipt]
  /\ entries = <<>>
  /\ completions = <<>>
  /\ pc      = [p \in Process |-> "down"]
  /\ view    = [p \in Process |-> <<>>]
  /\ keyring = [p \in Process |-> {}]
  /\ records = [p \in Process |-> {}]
  /\ scan    = [p \in Process |-> NoScan]
  /\ join    = [p \in Process |-> NoJoin]
  /\ signed  = {}

-----------------------------------------------------------------------------
(* Opening the authority: _init_db creates the row if it is not there.     *)

(* Mutant: INSERT OR REPLACE.                                              *)
InsertOrReplace(r) ==
  [head |-> ManifestDigest(<<>>), terminal |-> "OPEN", receipt |-> NoReceipt]

InsertOrIgnore(r) ==
  IF r.terminal = "ABSENT"
  THEN [head |-> ManifestDigest(<<>>), terminal |-> "OPEN",
        receipt |-> NoReceipt]
  ELSE r

Open(p) ==
  /\ pc[p] = "down"
  /\ row' = InsertOrIgnore(row)
  /\ pc' = [pc EXCEPT ![p] = "idle"]
  /\ UNCHANGED <<entries, completions, view, keyring, records, scan, join,
                 signed>>

-----------------------------------------------------------------------------
(* current_manifest: SELECT the entries, then SELECT the state row and     *)
(* compare its head with them.                                             *)

HeadMatches(m) == ManifestDigest(m) = row.head

ReadEntries(p) ==
  /\ pc[p] = "idle"
  /\ pc' = [pc EXCEPT ![p] = "manifest_head"]
  /\ scan' = [scan EXCEPT ![p] =
                [kind |-> "entries", manifest |-> entries, own |-> FALSE]]
  /\ UNCHANGED <<row, entries, completions, view, keyring, records, join,
                 signed>>

ReadHead(p) ==
  /\ pc[p] = "manifest_head"
  /\ view' = IF HeadMatches(scan[p].manifest)
             THEN [view EXCEPT ![p] = scan[p].manifest]
             ELSE view   \* "authority manifest head does not match"
  /\ pc' = [pc EXCEPT ![p] = "idle"]
  /\ scan' = [scan EXCEPT ![p] = NoScan]
  /\ UNCHANGED <<row, entries, completions, keyring, records, join, signed>>

-----------------------------------------------------------------------------
(* register.                                                               *)

(* Mutant: a terminal run is only recognised when it was aborted.          *)
RunNotAborted == row.terminal \in {"OPEN", "CLOSED"}

RunOpen == row.terminal = "OPEN"

NextEntry(m, req, s) ==
  [sequence |-> Len(m), request |-> req, verifier |-> s]

(* Mutant: verifier commitments may be reused.                             *)
CanReuseSigner(m, req, s) ==
  \A i \in DOMAIN m : LogicalKey[m[i].request] # LogicalKey[req]

(* The constructor of DispatchManifest on current.entries + (entry,).      *)
CanAppend(m, req, s) ==
  \A i \in DOMAIN m :
    /\ LogicalKey[m[i].request] # LogicalKey[req]
    /\ m[i].verifier # s

(* supplied = current, and its digest is the stored head.                  *)
IsCurrent(m) == m = entries /\ HeadMatches(m)

Register(p, req, s) ==
  /\ pc[p] = "idle"
  /\ HeadMatches(entries)
  /\ RunOpen
  /\ IsCurrent(view[p])
  /\ CanAppend(entries, req, s)
  /\ entries' = Append(entries, NextEntry(entries, req, s))
  /\ row' = [row EXCEPT !.head = ManifestDigest(entries')]
  /\ view' = [view EXCEPT ![p] = entries']
  /\ keyring' = [keyring EXCEPT ![p] = @ \cup {s}]
  /\ UNCHANGED <<completions, pc, records, scan, join, signed>>

-----------------------------------------------------------------------------
(* CompletionSigner.complete on an entry of the process's manifest, after  *)
(* the model and verifier calls have produced evidence o.                  *)

(* Mutant: the signer forgets that it signed.                              *)
NeverUsed(s) == FALSE

Used(s) == \E r \in signed : r.signer = s

Complete(p, i, o) ==
  LET e == view[p][i]
      r == [entry |-> e, request |-> e.request, outcome |-> o,
            signer |-> e.verifier]
  IN /\ pc[p] = "idle"
     /\ e.verifier \in keyring[p]
     /\ ~Used(e.verifier)
     /\ signed' = signed \cup {r}
     /\ records' = [records EXCEPT ![p] = @ \cup {r}]
     /\ UNCHANGED <<row, entries, completions, pc, view, keyring, scan, join>>

(* A record travels to another process as its mapping (to_mapping,         *)
(* from_mapping); the sender keeps its copy.                               *)
Deliver(p, q, r) ==
  /\ pc[p] = "idle"
  /\ pc[q] = "idle"
  /\ r \in records[p] \ records[q]
  /\ records' = [records EXCEPT ![q] = @ \cup {r}]
  /\ UNCHANGED <<row, entries, completions, pc, view, keyring, scan, join,
                 signed>>

-----------------------------------------------------------------------------
(* close: one transaction, then a readback on a new connection.            *)

(* Records that nobody signed: another body or another key than the signed *)
(* one, or a dispatch that is not registered.                              *)
ForgedRecord(e, o, s) ==
  [entry |-> e, request |-> e.request, outcome |-> o, signer |-> s]

Forged ==
  ({ForgedRecord(e, o, s) : e \in ToSet(entries), o \in Outcome, s \in Signer}
     \cup {ForgedRecord(NextEntry(entries, req, s), o, s) :
             req \in Request, s \in Signer, o \in Outcome}) \ signed

(* Mutant: the signature is not verified.                                  *)
ValidUnsigned(e, r) ==
  /\ r.entry = e
  /\ r.request = e.request
  /\ r.signer = e.verifier

(* _validate_record_for_entry: identity, stored request, preregistered     *)
(* commitment, and a signature over this very body, which only the signer  *)
(* makes.                                                                  *)
ValidRecord(e, r) ==
  /\ r.entry = e
  /\ r.request = e.request
  /\ r.signer = e.verifier
  /\ r \in signed

NoReplay(batch) ==
  \A i, j \in DOMAIN batch : batch[i].entry = batch[j].entry => i = j

NoFabrication(m, batch) ==
  \A j \in DOMAIN batch : \E i \in DOMAIN m : ValidRecord(m[i], batch[j])

(* The records of the batch in the order of the manifest; there is no such *)
(* sequence when a dispatch is omitted.                                    *)
InManifestOrder(m, batch) ==
  {j \in [1 .. Len(m) -> ToSet(batch)] : \A i \in DOMAIN m : j[i].entry = m[i]}

(* A caller may pass the records it holds and anything it makes up.        *)
Close(p) ==
  /\ pc[p] = "idle"
  /\ view[p] # <<>>
  /\ HeadMatches(entries)
  /\ RunOpen
  /\ IsCurrent(view[p])
  /\ \E batch \in BoundedSeq(records[p] \cup Forged, MaxBatch) :
       /\ NoReplay(batch)
       /\ NoFabrication(entries, batch)
       /\ \E joined \in InManifestOrder(entries, batch) :
            /\ completions' = joined
            /\ row' = [row EXCEPT
                         !.terminal = "CLOSED",
                         !.receipt = CloseReceipt(row.head,
                                       CompletionSetDigest(row.head, joined))]
  /\ pc' = [pc EXCEPT ![p] = "join_entries"]
  /\ scan' = [scan EXCEPT ![p] =
                [kind |-> "entries", manifest |-> <<>>, own |-> TRUE]]
  /\ UNCHANGED <<entries, view, keyring, records, join, signed>>

-----------------------------------------------------------------------------
(* read_closed_join: SELECT the entries, the state row twice (once to      *)
(* check the head, once for the receipt), the requests and the completion  *)
(* rows.  Called on its own, or by close after its commit.                 *)

BeginReadJoin(p) ==
  /\ pc[p] = "idle"
  /\ pc' = [pc EXCEPT ![p] = "join_entries"]
  /\ scan' = [scan EXCEPT ![p] =
                [kind |-> "entries", manifest |-> <<>>, own |-> FALSE]]
  /\ UNCHANGED <<row, entries, completions, view, keyring, records, join,
                 signed>>

ReadJoinEntries(p) ==
  /\ pc[p] = "join_entries"
  /\ pc' = [pc EXCEPT ![p] = "join_head"]
  /\ scan' = [scan EXCEPT ![p] = [kind |-> "entries", manifest |-> entries,
                                  own |-> scan[p].own]]
  /\ UNCHANGED <<row, entries, completions, view, keyring, records, join,
                 signed>>

FailRead(p) ==
  /\ pc' = [pc EXCEPT ![p] = "idle"]
  /\ scan' = [scan EXCEPT ![p] = NoScan]
  /\ UNCHANGED <<row, entries, completions, view, keyring, records, join,
                 signed>>

ReadJoinHead(p) ==
  /\ pc[p] = "join_head"
  /\ \/ /\ HeadMatches(scan[p].manifest)
        /\ pc' = [pc EXCEPT ![p] = "join_state"]
        /\ UNCHANGED <<row, entries, completions, view, keyring, records,
                       scan, join, signed>>
     \/ /\ ~HeadMatches(scan[p].manifest)
        /\ FailRead(p)

ReadJoinState(p) ==
  /\ pc[p] = "join_state"
  /\ \/ /\ row.terminal = "CLOSED"
        /\ pc' = [pc EXCEPT ![p] = "join_rows"]
        /\ scan' = [scan EXCEPT ![p] =
                      [kind |-> "state", manifest |-> scan[p].manifest,
                       own |-> scan[p].own, state |-> row]]
        /\ UNCHANGED <<row, entries, completions, view, keyring, records,
                       join, signed>>
     \/ /\ row.terminal # "CLOSED"
        /\ FailRead(p)

(* Mutant: only the rows that pair with an entry are checked.              *)
RowsPairUp(m, st, rows) ==
  \A i \in DOMAIN m \cap DOMAIN rows : ValidRecord(m[i], rows[i])

(* The checks after the last SELECT, the constructor of CompletionJoin     *)
(* included: m is the manifest of the first SELECT, st the later row.      *)
JoinAccepted(m, st, rows) ==
  /\ Len(rows) = Len(m)
  /\ \A i \in DOMAIN m : ValidRecord(m[i], rows[i])
  /\ st.receipt = CloseReceipt(st.head, CompletionSetDigest(st.head, rows))
  /\ ManifestDigest(m) = st.head

ReadJoinRows(p) ==
  /\ pc[p] = "join_rows"
  /\ \/ /\ JoinAccepted(scan[p].manifest, scan[p].state, completions)
        /\ join' = [join EXCEPT ![p] =
                      [kind |-> "join", manifest |-> scan[p].manifest,
                       records |-> SubSeq(completions, 1, Len(scan[p].manifest)),
                       receipt |-> scan[p].state.receipt]]
        /\ pc' = [pc EXCEPT ![p] = "idle"]
        /\ scan' = [scan EXCEPT ![p] = NoScan]
        /\ UNCHANGED <<row, entries, completions, view, keyring, records,
                       signed>>
     \/ /\ ~JoinAccepted(scan[p].manifest, scan[p].state, completions)
        /\ FailRead(p)

-----------------------------------------------------------------------------
Abort(p) ==
  /\ pc[p] = "idle"
  /\ HeadMatches(entries)
  /\ RunOpen
  /\ row' = [row EXCEPT !.terminal = "ABORTED",
                        !.receipt = AbortReceipt(ManifestDigest(entries))]
  /\ UNCHANGED <<entries, completions, pc, view, keyring, records, scan, join,
                 signed>>

(* A process dies: its manifest, signers and records were only in memory.  *)
Crash(p) ==
  /\ pc[p] # "down"
  /\ pc' = [pc EXCEPT ![p] = "down"]
  /\ view' = [view EXCEPT ![p] = <<>>]
  /\ keyring' = [keyring EXCEPT ![p] = {}]
  /\ records' = [records EXCEPT ![p] = {}]
  /\ scan' = [scan EXCEPT ![p] = NoScan]
  /\ join' = [join EXCEPT ![p] = NoJoin]
  /\ UNCHANGED <<row, entries, completions, signed>>

Next ==
  \E p \in Process :
    \/ Open(p)
    \/ ReadEntries(p)
    \/ ReadHead(p)
    \/ \E req \in Request, s \in Signer : Register(p, req, s)
    \/ \E i \in DOMAIN view[p], o \in Outcome : Complete(p, i, o)
    \/ \E q \in Process, r \in records[p] : Deliver(p, q, r)
    \/ Close(p)
    \/ BeginReadJoin(p)
    \/ ReadJoinEntries(p)
    \/ ReadJoinHead(p)
    \/ ReadJoinState(p)
    \/ ReadJoinRows(p)
    \/ Abort(p)
    \/ Crash(p)

Spec == Init /\ [][Next]_vars

-----------------------------------------------------------------------------
(* Type correctness of the tables and of every process's memory; sequence  *)
(* numbers are the positions of the rows.                                  *)
TypeOK ==
  /\ row \in StateRow
  /\ entries \in Seq(Entry)
  /\ \A i \in DOMAIN entries : entries[i].sequence = i - 1
  /\ completions \in Seq(Record)
  /\ pc \in [Process -> PC]
  /\ view \in [Process -> Seq(Entry)]
  /\ keyring \in [Process -> SUBSET Signer]
  /\ records \in [Process -> SUBSET Record]
  /\ scan \in [Process -> Scan]
  /\ join \in [Process -> Join]
  /\ signed \in SUBSET Record

(* However processes race and crash, a logical key (problem, arm, attempt) *)
(* is answered by at most one signed record: keys and signers are unique   *)
(* in the manifest and a signer signs once (register, complete).           *)
OneAnswerPerKey ==
  \A r1, r2 \in signed :
    LogicalKey[r1.request] = LogicalKey[r2.request] => r1 = r2

(* A closed run holds, in manifest order, one signed record for each       *)
(* preregistered dispatch and no other, whatever its callers passed to     *)
(* close, and its receipt commits to exactly these rows.                   *)
ClosedIsExact ==
  row.terminal = "CLOSED" =>
    /\ entries # <<>>
    /\ Len(completions) = Len(entries)
    /\ \A i \in DOMAIN entries :
         /\ completions[i] \in signed
         /\ completions[i].entry = entries[i]
         /\ completions[i].request = entries[i].request
         /\ completions[i].signer = entries[i].verifier
    /\ row.receipt = CloseReceipt(ManifestDigest(entries),
                       CompletionSetDigest(ManifestDigest(entries), completions))

(* A join any process was ever returned is the persisted close of the run, *)
(* although read_closed_join fetches it by five SELECTs that other         *)
(* processes' commits may separate.                                        *)
JoinsAreAuthoritative ==
  \A p \in Process :
    join[p].kind = "join" =>
      /\ row.terminal = "CLOSED"
      /\ join[p].manifest = entries
      /\ join[p].records = completions
      /\ join[p].receipt = row.receipt

(* Once close has committed, its own readback cannot raise: a caller never *)
(* sees an exception from a close that took effect.                        *)
CommittedCloseReturns ==
  \A p \in Process :
    (scan[p].kind # "none" /\ scan[p].own) =>
      /\ pc[p] = "join_head"  => HeadMatches(scan[p].manifest)
      /\ pc[p] = "join_state" => row.terminal = "CLOSED"
      /\ pc[p] = "join_rows"  =>
           JoinAccepted(scan[p].manifest, scan[p].state, completions)

(* A dispatch is orphaned when its unused signer and every record of it    *)
(* have been lost with the processes that held them.                       *)
Orphaned(e) ==
  \A p \in Process :
    /\ e.verifier \in keyring[p] => Used(e.verifier)
    /\ \A r \in records[p] : r.entry # e

OrphansExist == \E i \in DOMAIN entries : Orphaned(entries[i])

-----------------------------------------------------------------------------
(* Action properties.                                                      *)

(* CLOSED and ABORTED are final across every call and every reopening:     *)
(* no table of the run changes again.                                      *)
TerminalIsFinal ==
  [][row.terminal \in {"CLOSED", "ABORTED"} => UNCHANGED db]_vars

OrphansStay ==
  \A i \in DOMAIN entries : Orphaned(entries[i]) => Orphaned(entries[i])'

OrphansNeverClose ==
  (row.terminal = "OPEN" /\ OrphansExist) => row'.terminal # "CLOSED"

(* Once orphaned, a dispatch stays orphaned: no later registration or      *)
(* reopening brings a signer or a record of it back, and its run is never  *)
(* closed by omission: abort is its only end.                              *)
OrphansAreForever == [][OrphansStay /\ OrphansNeverClose]_vars

(* The authority implements the abstract run ledger.                       *)
Ledger == INSTANCE RunLedger WITH
            log     <- entries,
            answers <- signed,
            fate    <- IF row.terminal = "ABSENT" THEN "OPEN" ELSE row.terminal,
            sealed  <- completions

ImplementsRunLedger == Ledger!Spec
=============================================================================
