--------------------------- MODULE DispatchProofs ---------------------------
(***************************************************************************)
(* Theorems about Dispatch for every set of processes, requests, keys,     *)
(* signers and outcomes and every batch bound.                             *)
(***************************************************************************)
EXTENDS Dispatch, TLAPS

(* A multi-SELECT read has fetched what its program point says it has.     *)
ScanMatchesPc ==
  \A p \in Process :
    /\ pc[p] \in {"down", "idle"} => scan[p] = NoScan
    /\ pc[p] \in {"manifest_head", "join_entries", "join_head", "join_state"}
         => scan[p].kind = "entries"
    /\ pc[p] = "join_rows" => scan[p].kind = "state"

TypeInv == TypeOK /\ ScanMatchesPc

(* The entry _append_request builds for the next place of a manifest is an *)
(* entry, and appending it gives a manifest again (dispatch.py:401-414).   *)
LEMMA NextEntryType ==
  ASSUME NEW m \in Seq(Entry), NEW req \in Request, NEW s \in Signer
  PROVE  /\ NextEntry(m, req, s) \in Entry
         /\ Append(m, NextEntry(m, req, s)) \in Seq(Entry)
         /\ NextEntry(m, req, s).sequence = Len(m)
BY DEF NextEntry, Entry

(* Whatever is passed to close, what it commits has one record in place of *)
(* each entry, and every one is signed and of the caller's own.            *)
LEMMA CloseCommits ==
  ASSUME entries \in Seq(Entry), NEW p \in Process, records[p] \in SUBSET Record,
         Close(p)
  PROVE  \E joined \in Seq(Record) :
           /\ Len(joined) = Len(entries)
           /\ \A i \in DOMAIN entries :
                /\ joined[i] \in signed /\ joined[i] \in records[p]
                /\ joined[i].entry = entries[i]
                /\ joined[i].request = entries[i].request
                /\ joined[i].signer = entries[i].verifier
           /\ completions' = joined
           /\ row' = [row EXCEPT
                        !.terminal = "CLOSED",
                        !.receipt = CloseReceipt(row.head,
                                      CompletionSetDigest(row.head, joined))]
<1>1. PICK batch \in BoundedSeq(records[p] \cup Forged, MaxBatch) :
        /\ NoFabrication(entries, batch)
        /\ \E joined \in InManifestOrder(entries, batch) :
             /\ completions' = joined
             /\ row' = [row EXCEPT
                          !.terminal = "CLOSED",
                          !.receipt = CloseReceipt(row.head,
                                        CompletionSetDigest(row.head, joined))]
  BY DEF Close
<1>2. PICK joined \in InManifestOrder(entries, batch) :
        /\ completions' = joined
        /\ row' = [row EXCEPT
                     !.terminal = "CLOSED",
                     !.receipt = CloseReceipt(row.head,
                                   CompletionSetDigest(row.head, joined))]
  BY <1>1
<1>3. \A j \in DOMAIN batch : batch[j] \in records[p] \cup Forged
  BY BatchAssumption DEF BoundedSeq, SeqOf
<1>4. ASSUME NEW r \in ToSet(batch)
      PROVE  /\ r \in signed /\ r \in records[p]
             /\ \E i \in DOMAIN entries : ValidRecord(entries[i], r)
  <2>1. PICK j \in DOMAIN batch : r = batch[j]
    BY DEF ToSet
  <2>2. \E i \in DOMAIN entries : ValidRecord(entries[i], r)
    BY <1>1, <2>1 DEF NoFabrication
  <2>3. r \in signed
    BY <2>2 DEF ValidRecord
  <2> QED
    BY <1>3, <2>1, <2>2, <2>3 DEF Forged
<1>5. joined \in [1 .. Len(entries) -> ToSet(batch)]
      /\ \A i \in DOMAIN entries : joined[i].entry = entries[i]
  BY DEF InManifestOrder
<1>6. ASSUME NEW i \in DOMAIN entries
      PROVE  /\ joined[i] \in signed /\ joined[i] \in records[p]
             /\ joined[i].request = entries[i].request
             /\ joined[i].signer = entries[i].verifier
  <2>1. joined[i] \in ToSet(batch) /\ joined[i].entry = entries[i]
    BY <1>5
  <2>2. PICK k \in DOMAIN entries : ValidRecord(entries[k], joined[i])
    BY <1>4, <2>1
  <2> QED
    BY <1>4, <2>1, <2>2 DEF ValidRecord
<1>7. joined \in Seq(Record) /\ Len(joined) = Len(entries)
  <2>1. \A i \in 1 .. Len(entries) : joined[i] \in Record
    BY <1>6
  <2>2. joined \in [1 .. Len(entries) -> Record]
    BY <1>5, <2>1
  <2> QED
    BY <2>2
<1> QED
  BY <1>2, <1>5, <1>6, <1>7

(* The typing invariant holds before the authority has served a request.   *)
LEMMA InitType == Init => TypeInv
BY DEF Init, TypeInv, TypeOK, ScanMatchesPc, StateRow, TerminalState, PC, Digest,
       ManifestDigest, Receipt, NoReceipt, Scan, NoScan, Join, NoJoin

(* Every step of an authority call keeps the rows, the entries and the     *)
(* calls' own scans in their types.                                        *)
LEMMA NextType == TypeInv /\ [Next]_vars => TypeInv'
<1> SUFFICES ASSUME TypeInv, [Next]_vars PROVE TypeInv'
  OBVIOUS
<1> USE DEF TypeInv, TypeOK, ScanMatchesPc
<1>1. ASSUME NEW p \in Process, Open(p) PROVE TypeInv'
  BY <1>1 DEF Open, InsertOrIgnore, StateRow, TerminalState, PC, Digest,
              ManifestDigest, Receipt, NoReceipt
<1>2. ASSUME NEW p \in Process, ReadEntries(p) PROVE TypeInv'
  BY <1>2 DEF ReadEntries, PC, Scan, NoScan
<1>3. ASSUME NEW p \in Process, ReadHead(p) PROVE TypeInv'
  BY <1>3 DEF ReadHead, PC, Scan, NoScan
<1>4. ASSUME NEW p \in Process, NEW req \in Request, NEW s \in Signer,
             Register(p, req, s)
      PROVE  TypeInv'
  <2>1. entries' \in Seq(Entry) /\ Len(entries') = Len(entries) + 1
    BY <1>4, NextEntryType DEF Register
  <2>2. \A i \in DOMAIN entries' : entries'[i].sequence = i - 1
    BY <1>4, <2>1, NextEntryType DEF Register
  <2>3. row' \in StateRow
    BY <1>4, <2>1 DEF Register, StateRow, Digest, ManifestDigest
  <2>4. QED
    BY <1>4, <2>1, <2>2, <2>3 DEF Register
<1>5. ASSUME NEW p \in Process, NEW i \in DOMAIN view[p], NEW o \in Outcome,
             Complete(p, i, o)
      PROVE  TypeInv'
  <2> DEFINE e == view[p][i]
             r == [entry |-> e, request |-> e.request, outcome |-> o,
                   signer |-> e.verifier]
  <2>1. r \in Record
    <3>1. e \in Entry
      BY <1>5
    <3>2. QED
      BY <3>1 DEF Entry, Record
  <2>2. signed' = signed \cup {r} /\ records' = [records EXCEPT ![p] = @ \cup {r}]
    BY <1>5 DEF Complete
  <2>3. UNCHANGED <<row, entries, completions, pc, view, keyring, scan, join>>
    BY <1>5 DEF Complete
  <2> HIDE DEF r
  <2>4. QED
    BY <2>1, <2>2, <2>3
<1>6. ASSUME NEW p \in Process, NEW q \in Process, NEW r \in records[p],
             Deliver(p, q, r)
      PROVE  TypeInv'
  BY <1>6 DEF Deliver
<1>7. ASSUME NEW p \in Process, Close(p) PROVE TypeInv'
  <2>1. PICK joined \in Seq(Record) :
          /\ completions' = joined
          /\ row' = [row EXCEPT
                      !.terminal = "CLOSED",
                      !.receipt = CloseReceipt(row.head,
                                    CompletionSetDigest(row.head, joined))]
    BY <1>7, CloseCommits
  <2>2. joined \in Seq(Record)
    OBVIOUS
  <2>3. row.head \in Digest
    BY DEF StateRow
  <2>4. CloseReceipt(row.head, CompletionSetDigest(row.head, joined)) \in Receipt
    BY <2>2, <2>3 DEF Receipt, CloseReceipt, CompletionSetDigest
  <2>5. row' \in StateRow
    BY <2>1, <2>4 DEF StateRow, TerminalState
  <2>6. pc' \in [Process -> PC] /\ scan' \in [Process -> Scan] /\ ScanMatchesPc'
    BY <1>7 DEF Close, PC, Scan, NoScan
  <2>7. QED
    BY <1>7, <2>1, <2>2, <2>5, <2>6 DEF Close
<1>8. ASSUME NEW p \in Process, BeginReadJoin(p) PROVE TypeInv'
  BY <1>8 DEF BeginReadJoin, PC, Scan, NoScan
<1>9. ASSUME NEW p \in Process, ReadJoinEntries(p) PROVE TypeInv'
  BY <1>9 DEF ReadJoinEntries, PC, Scan, NoScan
<1>10. ASSUME NEW p \in Process, ReadJoinHead(p) PROVE TypeInv'
  BY ZenonT(60), <1>10 DEF ReadJoinHead, FailRead, PC, Scan, NoScan
<1>11. ASSUME NEW p \in Process, ReadJoinState(p) PROVE TypeInv'
  <2>1. CASE row.terminal # "CLOSED"
    BY ZenonT(60), <1>11, <2>1 DEF ReadJoinState, FailRead, PC, Scan, NoScan
  <2>2. CASE row.terminal = "CLOSED"
    <3> DEFINE new == [kind |-> "state", manifest |-> scan[p].manifest,
                       own |-> scan[p].own, state |-> row]
    <3>1. scan[p].manifest \in Seq(Entry) /\ scan[p].own \in BOOLEAN
      BY <1>11 DEF ReadJoinState, Scan, NoScan
    <3>2. new \in Scan /\ new.kind = "state"
      BY <3>1 DEF Scan
    <3>3. scan' = [scan EXCEPT ![p] = new] /\ pc' = [pc EXCEPT ![p] = "join_rows"]
      BY <1>11, <2>2 DEF ReadJoinState
    <3>4. UNCHANGED <<row, entries, completions, view, keyring, records, join,
                      signed>>
      BY <1>11, <2>2 DEF ReadJoinState
    <3> HIDE DEF new
    <3>5. QED
      BY <3>2, <3>3, <3>4 DEF PC
  <2>3. QED
    BY <2>1, <2>2
<1>12. ASSUME NEW p \in Process, ReadJoinRows(p) PROVE TypeInv'
  <2> DEFINE m == scan[p].manifest
             st == scan[p].state
  <2>1. CASE ~JoinAccepted(m, st, completions)
    BY <1>12, <2>1 DEF ReadJoinRows, FailRead, PC, Scan, NoScan
  <2>2. CASE JoinAccepted(m, st, completions)
    <3> DEFINE new == [kind |-> "join", manifest |-> m,
                       records |-> SubSeq(completions, 1, Len(m)),
                       receipt |-> st.receipt]
    <3>1. m \in Seq(Entry) /\ st.receipt \in Receipt
      BY <1>12 DEF ReadJoinRows, Scan, NoScan, StateRow
    <3>2. SubSeq(completions, 1, Len(m)) \in Seq(Record)
      BY <2>2, <3>1 DEF JoinAccepted
    <3>3. new \in Join
      BY <3>1, <3>2 DEF Join
    <3>4. join' = [join EXCEPT ![p] = new]
      BY <1>12, <2>2 DEF ReadJoinRows
    <3>5. /\ pc' = [pc EXCEPT ![p] = "idle"]
          /\ scan' = [scan EXCEPT ![p] = NoScan]
          /\ UNCHANGED <<row, entries, completions, view, keyring, records,
                         signed>>
      BY <1>12, <2>2 DEF ReadJoinRows
    <3> HIDE DEF new
    <3>6. QED
      BY <3>3, <3>4, <3>5 DEF PC, Scan, NoScan
  <2>3. QED
    BY <2>1, <2>2
<1>13. ASSUME NEW p \in Process, Abort(p) PROVE TypeInv'
  BY <1>13 DEF Abort, StateRow, TerminalState, Receipt, AbortReceipt, Digest,
               ManifestDigest
<1>14. ASSUME NEW p \in Process, Crash(p) PROVE TypeInv'
  BY <1>14 DEF Crash, PC, Scan, NoScan, Join, NoJoin
<1>15. CASE UNCHANGED vars
  BY <1>15 DEF vars
<1>16. QED
  BY <1>1, <1>2, <1>3, <1>4, <1>5, <1>6, <1>7, <1>8, <1>9, <1>10, <1>11,
     <1>12, <1>13, <1>14, <1>15 DEF Next

-----------------------------------------------------------------------------
(* The inductive invariant.                                                *)

(* What the tables say of each other: the stored head is the digest of the *)
(* stored entries, no key and no signer is registered twice, and nothing   *)
(* is stored before the state row exists.                                  *)
UniqueEntries ==
  \A i, j \in DOMAIN entries :
    (\/ LogicalKey[entries[i].request] = LogicalKey[entries[j].request]
     \/ entries[i].verifier = entries[j].verifier) => i = j

Stored ==
  /\ HeadMatches(entries)
  /\ UniqueEntries
  /\ row.terminal = "ABSENT" => entries = <<>>
  /\ ClosedIsExact

(* Every copy of the manifest in some memory is a prefix of the stored one. *)
CopiesArePrefixes ==
  \A p \in Process :
    /\ IsPrefix(view[p], entries)
    /\ scan[p].kind # "none" => IsPrefix(scan[p].manifest, entries)

AnswerTo(e, r) == r.entry = e /\ r.request = e.request /\ r.signer = e.verifier

(* Every record anyone holds was signed, once, for a stored dispatch.      *)
SignedAreDispatched ==
  /\ \A r \in signed : \E i \in DOMAIN entries : AnswerTo(entries[i], r)
  /\ \A r1, r2 \in signed : r1.signer = r2.signer => r1 = r2
  /\ \A p \in Process : records[p] \subseteq signed

(* What a reader of the closed join relies on between its SELECTs.         *)
ReadsAgree ==
  \A p \in Process :
    /\ (scan[p].kind # "none" /\ scan[p].own) =>
         /\ row.terminal = "CLOSED"
         /\ pc[p] \in {"join_head", "join_state", "join_rows"} =>
              scan[p].manifest = entries
    /\ pc[p] = "join_rows" =>
         /\ row.terminal = "CLOSED"
         /\ scan[p].state = row

IInv ==
  /\ TypeInv
  /\ Stored
  /\ CopiesArePrefixes
  /\ SignedAreDispatched
  /\ ReadsAgree
  /\ JoinsAreAuthoritative

(* A manifest is a prefix of another when it is not longer and agrees with *)
(* it at each of its places.                                               *)
LEMMA PrefixPointwise ==
  ASSUME NEW S, NEW s \in Seq(S), NEW t \in Seq(S)
  PROVE  IsPrefix(s, t) <=>
           Len(s) <= Len(t) /\ \A i \in 1 .. Len(s) : s[i] = t[i]
BY DEF IsPrefix

(* Appending an entry keeps every prefix a prefix and adds one: the whole. *)
LEMMA PrefixAppend ==
  ASSUME NEW S, NEW s \in Seq(S), NEW t \in Seq(S), NEW e \in S, IsPrefix(s, t)
  PROVE  IsPrefix(s, Append(t, e))
<1> DEFINE u == Append(t, e)
<1>1. /\ u \in Seq(S)
      /\ Len(u) = Len(t) + 1
      /\ \A i \in 1 .. Len(t) : u[i] = t[i]
  OBVIOUS
<1> HIDE DEF u
<1>2. Len(s) <= Len(t) /\ \A i \in 1 .. Len(s) : s[i] = t[i]
  BY PrefixPointwise
<1>3. Len(s) <= Len(u) /\ \A i \in 1 .. Len(s) : s[i] = u[i]
  BY <1>1, <1>2
<1>4. IsPrefix(s, u)
  BY <1>1, <1>3, PrefixPointwise
<1>5. QED
  BY <1>4 DEF u

(* The empty manifest and the manifest itself are prefixes of a manifest.  *)
LEMMA PrefixEnds ==
  ASSUME NEW S, NEW t \in Seq(S)
  PROVE  IsPrefix(<<>>, t) /\ IsPrefix(t, t)
BY DEF IsPrefix

(* Only the processes' memory changes, and nothing is signed.              *)
LEMMA StoredStable ==
  Stored /\ UNCHANGED <<row, entries, completions, signed>> => Stored'
BY DEF Stored, HeadMatches, UniqueEntries, ClosedIsExact, Used

(* A step that inserts no entry, no record and signs nothing cannot put a  *)
(* signature before its dispatch.                                          *)
LEMMA RecordsStable ==
  SignedAreDispatched /\ UNCHANGED <<entries, records, signed>>
    => SignedAreDispatched'
BY DEF SignedAreDispatched

(* A step that leaves the tables and the answered joins alone leaves every *)
(* answered join authoritative.                                            *)
LEMMA JoinsStable ==
  JoinsAreAuthoritative /\ UNCHANGED <<row, entries, completions, join>>
    => JoinsAreAuthoritative'
BY DEF JoinsAreAuthoritative

(* Reads that give up and reads that move on leave the tables alone.       *)
LEMMA FailReadInv ==
  ASSUME IInv, TypeInv', NEW p \in Process, FailRead(p)
  PROVE  IInv'
<1>1. CopiesArePrefixes'
  BY DEF FailRead, IInv, CopiesArePrefixes, TypeInv, TypeOK, NoScan
<1>2. ReadsAgree'
  BY DEF FailRead, IInv, ReadsAgree, TypeInv, TypeOK, NoScan
<1>3. QED
  BY <1>1, <1>2, StoredStable, RecordsStable, JoinsStable DEF FailRead, IInv

(* The strengthened invariant is inductive: one step of the proof per      *)
(* authority operation.                                                    *)
LEMMA NextInv == IInv /\ [Next]_vars => IInv'
<1> SUFFICES ASSUME IInv, [Next]_vars PROVE IInv'
  OBVIOUS
<1> TypeInv /\ TypeInv'
  BY NextType DEF IInv
<1>1. ASSUME NEW p \in Process, Open(p) PROVE IInv'
  <2>1. Stored'
    BY <1>1 DEF Open, IInv, Stored, HeadMatches, UniqueEntries, ClosedIsExact,
                InsertOrIgnore
  <2>2. CopiesArePrefixes'
    BY <1>1 DEF Open, IInv, CopiesArePrefixes
  <2>3. ReadsAgree' /\ JoinsAreAuthoritative'
    BY <1>1 DEF Open, IInv, ReadsAgree, JoinsAreAuthoritative, InsertOrIgnore,
                TypeInv, TypeOK
  <2>4. QED
    BY <1>1, <2>1, <2>2, <2>3, RecordsStable DEF Open, IInv
<1>2. ASSUME NEW p \in Process, ReadEntries(p) PROVE IInv'
  <2>1. CopiesArePrefixes'
    BY <1>2, PrefixEnds DEF ReadEntries, IInv, CopiesArePrefixes, TypeInv, TypeOK
  <2>2. ReadsAgree'
    BY <1>2 DEF ReadEntries, IInv, ReadsAgree, TypeInv, TypeOK
  <2>3. QED
    BY <1>2, <2>1, <2>2, StoredStable, RecordsStable, JoinsStable
       DEF ReadEntries, IInv
<1>3. ASSUME NEW p \in Process, ReadHead(p) PROVE IInv'
  <2>1. scan[p].kind = "entries"
    BY <1>3 DEF ReadHead, TypeInv, ScanMatchesPc
  <2>2. CopiesArePrefixes'
    BY <1>3, <2>1 DEF ReadHead, IInv, CopiesArePrefixes, TypeInv, TypeOK, NoScan
  <2>3. ReadsAgree'
    BY <1>3 DEF ReadHead, IInv, ReadsAgree, TypeInv, TypeOK, NoScan
  <2>4. QED
    BY <1>3, <2>2, <2>3, StoredStable, RecordsStable, JoinsStable
       DEF ReadHead, IInv
<1>4. ASSUME NEW p \in Process, NEW req \in Request, NEW s \in Signer,
             Register(p, req, s)
      PROVE  IInv'
  <2> DEFINE e == NextEntry(entries, req, s)
  <2>1. /\ entries \in Seq(Entry)
        /\ e \in Entry
        /\ e.request = req
        /\ e.verifier = s
        /\ entries' = Append(entries, e)
        /\ row' = [row EXCEPT !.head = ManifestDigest(entries')]
        /\ row.terminal = "OPEN"
    BY <1>4, NextEntryType DEF Register, TypeInv, TypeOK, NextEntry, RunOpen
  <2> HIDE DEF e
  <2>2. /\ Len(entries') = Len(entries) + 1
        /\ \A i \in DOMAIN entries : i \in DOMAIN entries' /\ entries'[i] = entries[i]
        /\ entries'[Len(entries) + 1] = e
        /\ \A i \in DOMAIN entries' : i \in DOMAIN entries \/ i = Len(entries) + 1
    BY <2>1
  <2>3. row'.head = ManifestDigest(entries') /\ row'.terminal = "OPEN"
    BY <2>1 DEF TypeInv, TypeOK, StateRow
  <2>4. UniqueEntries'
    <3>1. \A i \in DOMAIN entries :
            /\ LogicalKey[entries[i].request] # LogicalKey[req]
            /\ entries[i].verifier # s
      BY <1>4 DEF Register, CanAppend
    <3>2. QED
      BY <2>1, <2>2, <3>1 DEF IInv, Stored, UniqueEntries
  <2>5. Stored'
    BY <2>3, <2>4 DEF Stored, HeadMatches, ClosedIsExact
  <2>6. CopiesArePrefixes'
    <3>1. ASSUME NEW q \in Process PROVE IsPrefix(view'[q], entries')
      <4>1. view' = [view EXCEPT ![p] = entries'] /\ view[q] \in Seq(Entry)
        BY <1>4 DEF Register, TypeInv, TypeOK
      <4>2. CASE q = p
        <5>1. view'[q] = entries'
          BY <4>1, <4>2 DEF TypeInv, TypeOK
        <5>2. QED
          BY <5>1, PrefixEnds DEF TypeInv, TypeOK
      <4>3. CASE q # p
        <5>1. view'[q] = view[q] /\ IsPrefix(view[q], entries)
          BY <4>1, <4>3 DEF IInv, CopiesArePrefixes, TypeInv, TypeOK
        <5>2. QED
          BY <2>1, <4>1, <5>1, PrefixAppend
      <4>4. QED
        BY <4>2, <4>3
    <3>2. ASSUME NEW q \in Process, scan[q].kind # "none"
          PROVE  IsPrefix(scan[q].manifest, entries')
      <4>1. scan[q].manifest \in Seq(Entry)
        BY <3>2 DEF TypeInv, TypeOK, Scan, NoScan
      <4>2. QED
        BY <2>1, <3>2, <4>1, PrefixAppend DEF IInv, CopiesArePrefixes
    <3>3. QED
      BY <1>4, <3>1, <3>2 DEF Register, CopiesArePrefixes
  <2>7. SignedAreDispatched'
    BY <1>4, <2>2 DEF Register, IInv, SignedAreDispatched
  <2>8. ReadsAgree' /\ JoinsAreAuthoritative'
    BY <1>4, <2>1 DEF Register, IInv, ReadsAgree, JoinsAreAuthoritative
  <2>9. QED
    BY <2>5, <2>6, <2>7, <2>8 DEF IInv
<1>5. ASSUME NEW p \in Process, NEW i \in DOMAIN view[p], NEW o \in Outcome,
             Complete(p, i, o)
      PROVE  IInv'
  <2> DEFINE e == view[p][i]
             r == [entry |-> e, request |-> e.request, outcome |-> o,
                   signer |-> e.verifier]
  <2>1. i \in DOMAIN entries /\ entries[i] = e
    <3>1. /\ IsPrefix(view[p], entries)
          /\ view[p] \in Seq(Entry)
          /\ entries \in Seq(Entry)
      BY DEF IInv, CopiesArePrefixes, TypeInv, TypeOK
    <3>2. /\ Len(view[p]) <= Len(entries)
          /\ \A k \in 1 .. Len(view[p]) : view[p][k] = entries[k]
      BY <3>1, PrefixPointwise
    <3>3. QED
      BY <3>1, <3>2
  <2>2. AnswerTo(entries[i], r) /\ r.signer = e.verifier
    BY <2>1 DEF AnswerTo
  <2>3. ~Used(e.verifier) /\ signed' = signed \cup {r}
                          /\ records' = [records EXCEPT ![p] = @ \cup {r}]
    BY <1>5 DEF Complete
  <2>4. UNCHANGED <<row, entries, completions, pc, view, keyring, scan, join>>
    BY <1>5 DEF Complete
  <2> HIDE DEF r
  <2>5. SignedAreDispatched'
    <3>1. \A x \in signed' : \E k \in DOMAIN entries' : AnswerTo(entries'[k], x)
      BY <2>1, <2>2, <2>3, <2>4 DEF IInv, SignedAreDispatched
    <3>2. \A x, y \in signed' : x.signer = y.signer => x = y
      BY <2>2, <2>3 DEF IInv, SignedAreDispatched, Used
    <3>3. \A q \in Process : records'[q] \subseteq signed'
      BY <2>3 DEF IInv, SignedAreDispatched, TypeInv, TypeOK
    <3>4. QED
      BY <3>1, <3>2, <3>3 DEF SignedAreDispatched
  <2>6. Stored'
    BY <2>3, <2>4 DEF IInv, Stored, HeadMatches, UniqueEntries, ClosedIsExact
  <2>7. CopiesArePrefixes' /\ ReadsAgree'
    BY <2>4 DEF IInv, CopiesArePrefixes, ReadsAgree
  <2>8. QED
    BY <2>4, <2>5, <2>6, <2>7, JoinsStable DEF IInv
<1>6. ASSUME NEW p \in Process, NEW q \in Process, NEW r \in records[p],
             Deliver(p, q, r)
      PROVE  IInv'
  <2>1. SignedAreDispatched'
    BY <1>6 DEF Deliver, IInv, SignedAreDispatched, TypeInv, TypeOK
  <2>2. CopiesArePrefixes' /\ ReadsAgree'
    BY <1>6 DEF Deliver, IInv, CopiesArePrefixes, ReadsAgree
  <2>3. QED
    BY <1>6, <2>1, <2>2, StoredStable, JoinsStable DEF Deliver, IInv
<1>7. ASSUME NEW p \in Process, Close(p) PROVE IInv'
  <2>1. PICK joined \in Seq(Record) :
          /\ Len(joined) = Len(entries)
          /\ \A i \in DOMAIN entries :
               /\ joined[i] \in signed
               /\ joined[i].entry = entries[i]
               /\ joined[i].request = entries[i].request
               /\ joined[i].signer = entries[i].verifier
          /\ completions' = joined
          /\ row' = [row EXCEPT
                      !.terminal = "CLOSED",
                      !.receipt = CloseReceipt(row.head,
                                    CompletionSetDigest(row.head, joined))]
    BY <1>7, CloseCommits DEF TypeInv, TypeOK
  <2>2. /\ row'.terminal = "CLOSED"
        /\ row'.head = row.head
        /\ row'.receipt = CloseReceipt(row.head,
                            CompletionSetDigest(row.head, joined))
    BY <2>1 DEF TypeInv, TypeOK, StateRow
  <2>5. /\ entries # <<>>
        /\ HeadMatches(entries)
        /\ row.terminal = "OPEN"
        /\ UNCHANGED <<entries, view, keyring, records, join, signed>>
    BY <1>7 DEF Close, IsCurrent, RunOpen
  <2>6. Stored'
    BY <2>1, <2>2, <2>5
       DEF IInv, Stored, HeadMatches, UniqueEntries, ClosedIsExact
  <2>7. CopiesArePrefixes'
    BY <1>7, <2>5, PrefixEnds DEF Close, IInv, CopiesArePrefixes, TypeInv, TypeOK
  <2>8. ReadsAgree'
    BY <1>7, <2>2, <2>5 DEF Close, IInv, ReadsAgree, TypeInv, TypeOK
  <2>9. JoinsAreAuthoritative'
    BY <2>5 DEF IInv, JoinsAreAuthoritative
  <2>10. QED
    BY <2>5, <2>6, <2>7, <2>8, <2>9, RecordsStable DEF IInv
<1>8. ASSUME NEW p \in Process, BeginReadJoin(p) PROVE IInv'
  <2>1. CopiesArePrefixes'
    BY <1>8, PrefixEnds DEF BeginReadJoin, IInv, CopiesArePrefixes, TypeInv, TypeOK
  <2>2. ReadsAgree'
    BY <1>8 DEF BeginReadJoin, IInv, ReadsAgree, TypeInv, TypeOK
  <2>3. QED
    BY <1>8, <2>1, <2>2, StoredStable, RecordsStable, JoinsStable
       DEF BeginReadJoin, IInv
<1>9. ASSUME NEW p \in Process, ReadJoinEntries(p) PROVE IInv'
  <2>1. CopiesArePrefixes'
    BY <1>9, PrefixEnds
       DEF ReadJoinEntries, IInv, CopiesArePrefixes, TypeInv, TypeOK
  <2>2. ReadsAgree'
    BY <1>9 DEF ReadJoinEntries, IInv, ReadsAgree, TypeInv, TypeOK, ScanMatchesPc
  <2>3. QED
    BY <1>9, <2>1, <2>2, StoredStable, RecordsStable, JoinsStable
       DEF ReadJoinEntries, IInv
<1>10. ASSUME NEW p \in Process, ReadJoinHead(p) PROVE IInv'
  <2>1. CASE ~HeadMatches(scan[p].manifest)
    BY <1>10, <2>1, FailReadInv DEF ReadJoinHead
  <2>2. CASE HeadMatches(scan[p].manifest)
    <3>1. CopiesArePrefixes' /\ ReadsAgree'
      BY <1>10, <2>2
         DEF ReadJoinHead, IInv, CopiesArePrefixes, ReadsAgree, TypeInv, TypeOK
    <3>2. QED
      BY <1>10, <2>2, <3>1, StoredStable, RecordsStable, JoinsStable
         DEF ReadJoinHead, IInv
  <2>3. QED
    BY <2>1, <2>2
<1>11. ASSUME NEW p \in Process, ReadJoinState(p) PROVE IInv'
  <2>1. CASE row.terminal # "CLOSED"
    BY <1>11, <2>1, FailReadInv DEF ReadJoinState
  <2>2. CASE row.terminal = "CLOSED"
    <3> DEFINE new == [kind |-> "state", manifest |-> scan[p].manifest,
                       own |-> scan[p].own, state |-> row]
    <3>1. /\ new.kind = "state"
          /\ new.manifest = scan[p].manifest
          /\ new.own = scan[p].own
          /\ new.state = row
      OBVIOUS
    <3>2. /\ scan' = [scan EXCEPT ![p] = new]
          /\ pc' = [pc EXCEPT ![p] = "join_rows"]
          /\ pc[p] = "join_state"
          /\ UNCHANGED <<row, entries, completions, view, keyring, records,
                         join, signed>>
      BY <1>11, <2>2 DEF ReadJoinState
    <3>3. scan[p].kind = "entries"
      BY <3>2 DEF TypeInv, ScanMatchesPc
    <3> HIDE DEF new
    <3>4. CopiesArePrefixes'
      BY <3>1, <3>2, <3>3 DEF IInv, CopiesArePrefixes, TypeInv, TypeOK
    <3>5. ReadsAgree'
      BY <2>2, <3>1, <3>2, <3>3 DEF IInv, ReadsAgree, TypeInv, TypeOK
    <3>6. QED
      BY <3>2, <3>4, <3>5, StoredStable, RecordsStable, JoinsStable DEF IInv
  <2>3. QED
    BY <2>1, <2>2
<1>12. ASSUME NEW p \in Process, ReadJoinRows(p) PROVE IInv'
  <2> DEFINE m == scan[p].manifest
             st == scan[p].state
  <2>1. CASE ~JoinAccepted(m, st, completions)
    BY <1>12, <2>1, FailReadInv DEF ReadJoinRows
  <2>2. CASE JoinAccepted(m, st, completions)
    <3> DEFINE new == [kind |-> "join", manifest |-> m,
                       records |-> SubSeq(completions, 1, Len(m)),
                       receipt |-> st.receipt]
    <3>1. row.terminal = "CLOSED" /\ st = row
      BY <1>12 DEF ReadJoinRows, IInv, ReadsAgree
    <3>2. m = entries
      BY <2>2, <3>1 DEF JoinAccepted, IInv, Stored, HeadMatches, ManifestDigest
    <3>3. Len(completions) = Len(m) /\ completions \in Seq(Record)
      BY <2>2 DEF JoinAccepted, TypeInv, TypeOK
    <3>4. SubSeq(completions, 1, Len(m)) = completions
      BY <3>3
    <3>5. /\ new.manifest = entries
          /\ new.records = completions
          /\ new.receipt = row.receipt
      BY <3>1, <3>2, <3>4
    <3>6. /\ join' = [join EXCEPT ![p] = new]
          /\ pc' = [pc EXCEPT ![p] = "idle"]
          /\ scan' = [scan EXCEPT ![p] = NoScan]
          /\ UNCHANGED <<row, entries, completions, view, keyring, records,
                         signed>>
      BY <1>12, <2>2 DEF ReadJoinRows
    <3> HIDE DEF new
    <3>7. JoinsAreAuthoritative'
      BY <3>1, <3>5, <3>6 DEF IInv, JoinsAreAuthoritative, TypeInv, TypeOK
    <3>8. CopiesArePrefixes' /\ ReadsAgree'
      BY <3>6 DEF IInv, CopiesArePrefixes, ReadsAgree, TypeInv, TypeOK, NoScan
    <3>9. QED
      BY <3>6, <3>7, <3>8, StoredStable, RecordsStable DEF IInv
  <2>3. QED
    BY <2>1, <2>2
<1>13. ASSUME NEW p \in Process, Abort(p) PROVE IInv'
  <2>1. /\ row.terminal = "OPEN"
        /\ row'.terminal = "ABORTED"
        /\ row'.head = row.head
        /\ UNCHANGED <<entries, completions, pc, view, keyring, records, scan,
                       join, signed>>
    BY <1>13 DEF Abort, RunOpen, TypeInv, TypeOK, StateRow
  <2>2. Stored'
    BY <2>1 DEF IInv, Stored, HeadMatches, UniqueEntries, ClosedIsExact
  <2>3. CopiesArePrefixes' /\ ReadsAgree' /\ JoinsAreAuthoritative'
    BY <2>1 DEF IInv, CopiesArePrefixes, ReadsAgree, JoinsAreAuthoritative
  <2>4. QED
    BY <2>1, <2>2, <2>3, RecordsStable DEF IInv
<1>14. ASSUME NEW p \in Process, Crash(p) PROVE IInv'
  <2>1. CopiesArePrefixes'
    BY <1>14, PrefixEnds DEF Crash, IInv, CopiesArePrefixes, TypeInv, TypeOK, NoScan
  <2>2. SignedAreDispatched'
    BY <1>14 DEF Crash, IInv, SignedAreDispatched, TypeInv, TypeOK
  <2>3. ReadsAgree' /\ JoinsAreAuthoritative'
    BY <1>14 DEF Crash, IInv, ReadsAgree, JoinsAreAuthoritative, TypeInv, TypeOK,
                 NoScan, NoJoin
  <2>4. QED
    BY <1>14, <2>1, <2>2, <2>3, StoredStable DEF Crash, IInv
<1>15. CASE UNCHANGED vars
  BY <1>15, StoredStable, RecordsStable, JoinsStable
     DEF vars, IInv, CopiesArePrefixes, ReadsAgree
<1>16. QED
  BY <1>1, <1>2, <1>3, <1>4, <1>5, <1>6, <1>7, <1>8, <1>9, <1>10, <1>11,
     <1>12, <1>13, <1>14, <1>15 DEF Next

-----------------------------------------------------------------------------
(* Type correctness of the authority's tables and every process's memory.  *)
THEOREM TypeCorrect == Spec => []TypeOK
<1>1. Spec => []TypeInv
  BY InitType, NextType, PTL DEF Spec
<1>2. TypeInv => TypeOK
  BY DEF TypeInv
<1>3. QED
  BY <1>1, <1>2, PTL

(* The strengthened invariant holds of an authority with an empty database.*)
LEMMA InitInv == Init => IInv
<1> SUFFICES ASSUME Init PROVE IInv
  OBVIOUS
<1>1. TypeInv
  BY InitType
<1>2. Stored
  BY DEF Init, Stored, HeadMatches, UniqueEntries, ClosedIsExact, ManifestDigest
<1>3. CopiesArePrefixes
  <2>1. entries = <<>> /\ \A p \in Process : view[p] = <<>> /\ scan[p].kind = "none"
    BY DEF Init, NoScan
  <2>2. IsPrefix(<<>>, <<>>)
    BY DEF IsPrefix
  <2>3. QED
    BY <2>1, <2>2 DEF CopiesArePrefixes
<1>4. SignedAreDispatched /\ ReadsAgree /\ JoinsAreAuthoritative
  BY DEF Init, SignedAreDispatched, ReadsAgree, JoinsAreAuthoritative, NoScan,
         NoJoin
<1>5. QED
  BY <1>1, <1>2, <1>3, <1>4 DEF IInv

(* Every reachable state of the authority satisfies the strengthened       *)
(* invariant the safety theorems below are read from.                      *)
THEOREM Invariance == Spec => []IInv
BY InitInv, NextInv, PTL DEF Spec

(* A logical key is answered by at most one signed record: equal keys are  *)
(* one entry, one entry is one signer, and one signer is one record.       *)
THEOREM OneAnswer == Spec => []OneAnswerPerKey
<1>1. ASSUME IInv PROVE OneAnswerPerKey
  <2> SUFFICES ASSUME NEW r1 \in signed, NEW r2 \in signed,
                      LogicalKey[r1.request] = LogicalKey[r2.request]
               PROVE  r1 = r2
    BY DEF OneAnswerPerKey
  <2>1. PICK i \in DOMAIN entries : AnswerTo(entries[i], r1)
    BY <1>1 DEF IInv, SignedAreDispatched
  <2>2. PICK j \in DOMAIN entries : AnswerTo(entries[j], r2)
    BY <1>1 DEF IInv, SignedAreDispatched
  <2>3. i = j
    BY <1>1, <2>1, <2>2 DEF IInv, Stored, UniqueEntries, AnswerTo
  <2>4. r1.signer = r2.signer
    BY <2>1, <2>2, <2>3 DEF AnswerTo
  <2>5. QED
    BY <1>1, <2>4 DEF IInv, SignedAreDispatched
<1>2. QED
  BY <1>1, Invariance, PTL

(* A closed run is the exact, signed join of its manifest.                 *)
THEOREM ClosedExact == Spec => []ClosedIsExact
<1>1. IInv => ClosedIsExact
  BY DEF IInv, Stored
<1>2. QED
  BY <1>1, Invariance, PTL

(* Every join a process was returned is the persisted close, whatever was  *)
(* committed between the SELECTs of its read.                              *)
THEOREM JoinsAuthoritative == Spec => []JoinsAreAuthoritative
<1>1. IInv => JoinsAreAuthoritative
  BY DEF IInv
<1>2. QED
  BY <1>1, Invariance, PTL

(* A close that has committed returns: no check of its readback can fail.  *)
THEOREM CloseReturns == Spec => []CommittedCloseReturns
<1>1. ASSUME IInv PROVE CommittedCloseReturns
  <2> SUFFICES ASSUME NEW p \in Process, scan[p].kind # "none", scan[p].own
               PROVE  /\ pc[p] = "join_head" => HeadMatches(scan[p].manifest)
                      /\ pc[p] = "join_state" => row.terminal = "CLOSED"
                      /\ pc[p] = "join_rows" =>
                           JoinAccepted(scan[p].manifest, scan[p].state, completions)
    BY DEF CommittedCloseReturns
  <2>1. row.terminal = "CLOSED"
    BY <1>1 DEF IInv, ReadsAgree
  <2>2. ASSUME pc[p] \in {"join_head", "join_rows"} PROVE scan[p].manifest = entries
    BY <1>1, <2>2 DEF IInv, ReadsAgree
  <2>3. ASSUME pc[p] = "join_rows" PROVE scan[p].state = row
    BY <1>1, <2>3 DEF IInv, ReadsAgree
  <2>4. JoinAccepted(entries, row, completions)
    BY <1>1, <2>1 DEF IInv, Stored, ClosedIsExact, HeadMatches, JoinAccepted, ValidRecord
  <2>5. QED
    BY <1>1, <2>1, <2>2, <2>3, <2>4 DEF IInv, Stored
<1>2. QED
  BY <1>1, Invariance, PTL

-----------------------------------------------------------------------------
(* Action properties.                                                      *)

(* The actions that write the tables or sign.                              *)
LEMMA Writers ==
  ASSUME [Next]_vars
  PROVE  \/ UNCHANGED db /\ UNCHANGED signed
         \/ \E p \in Process : \E i \in DOMAIN view[p], o \in Outcome :
              Complete(p, i, o)
         \/ \E p \in Process : Open(p)
         \/ \E p \in Process, req \in Request, s \in Signer : Register(p, req, s)
         \/ \E p \in Process : Close(p)
         \/ \E p \in Process : Abort(p)
BY DEF Next, vars, db, ReadEntries, ReadHead, Deliver, BeginReadJoin,
       ReadJoinEntries, ReadJoinHead, ReadJoinState, ReadJoinRows, FailRead, Crash

(* No call, reopening or crash changes a closed or aborted run.            *)
THEOREM TerminalFinal == Spec => TerminalIsFinal
<1>1. ASSUME IInv, [Next]_vars, row.terminal \in {"CLOSED", "ABORTED"}
      PROVE  UNCHANGED db
  <2>1. ASSUME NEW p \in Process, Open(p) PROVE UNCHANGED db
    BY <1>1, <2>1 DEF Open, InsertOrIgnore, db
  <2>2. QED
    BY <1>1, <2>1, Writers DEF Register, Complete, Close, Abort, RunOpen, db
<1>2. QED
  BY <1>1, Invariance, PTL DEF Spec, TerminalIsFinal

(* The loss of a signer and of its records cannot be undone.               *)
LEMMA OrphansStayLost == IInv /\ [Next]_vars => OrphansStay
<1>1. ASSUME IInv, [Next]_vars, NEW i \in DOMAIN entries, Orphaned(entries[i])
      PROVE  Orphaned(entries[i])'
  <2> PICK e : e = entries[i]
    OBVIOUS
  <2>1. TypeInv /\ SignedAreDispatched /\ entries \in Seq(Entry)
    BY <1>1 DEF IInv, TypeInv, TypeOK
  <2>2. \A p \in Process :
          /\ e.verifier \in keyring[p] => Used(e.verifier)
          /\ \A r \in records[p] : r.entry # e
    BY <1>1 DEF Orphaned
  <2>3. entries'[i] = e
    <3>1. ASSUME NEW p \in Process, NEW req \in Request, NEW s \in Signer,
                 Register(p, req, s)
          PROVE  entries'[i] = e
      BY <2>1, <3>1, NextEntryType DEF Register
    <3>2. QED
      BY <1>1, <3>1, Writers DEF db, Open, Complete, Close, Abort
  <2>4. SUFFICES ASSUME NEW q \in Process
                 PROVE  /\ e.verifier \in keyring'[q] => Used(e.verifier)'
                        /\ \A r \in records'[q] : r.entry # e
    BY <2>3 DEF Orphaned
  <2>5. ASSUME NEW p \in Process, NEW req \in Request, NEW s \in Signer,
               Register(p, req, s)
        PROVE  /\ e.verifier \in keyring'[q] => Used(e.verifier)'
               /\ \A r \in records'[q] : r.entry # e
    <3>1. e.verifier # s
      BY <2>5 DEF Register, CanAppend
    <3>2. QED
      BY <2>1, <2>2, <2>5, <3>1 DEF Register, Used, TypeInv, TypeOK
  <2>6. ASSUME NEW p \in Process, NEW k \in DOMAIN view[p], NEW o \in Outcome,
               Complete(p, k, o)
        PROVE  /\ e.verifier \in keyring'[q] => Used(e.verifier)'
               /\ \A r \in records'[q] : r.entry # e
    <3> DEFINE f == view[p][k]
               new == [entry |-> f, request |-> f.request, outcome |-> o,
                       signer |-> f.verifier]
    <3>1. f.verifier \in keyring[p] /\ ~Used(f.verifier)
      BY <2>6 DEF Complete
    <3>2. f # e
      BY <2>2, <3>1
    <3>3. signed' = signed \cup {new} /\ keyring' = keyring
                                      /\ records' = [records EXCEPT ![p] = @ \cup {new}]
      BY <2>6 DEF Complete
    <3>4. new.entry # e
      BY <3>2
    <3> HIDE DEF new
    <3>5. QED
      BY <2>1, <2>2, <3>3, <3>4 DEF Used, TypeInv, TypeOK
  <2>7. ASSUME NEW p \in Process, NEW p2 \in Process, NEW r \in records[p],
               Deliver(p, p2, r)
        PROVE  /\ e.verifier \in keyring'[q] => Used(e.verifier)'
               /\ \A x \in records'[q] : x.entry # e
    BY <2>1, <2>2, <2>7 DEF Deliver, Used, TypeInv, TypeOK
  <2>8. ASSUME NEW p \in Process, Crash(p)
        PROVE  /\ e.verifier \in keyring'[q] => Used(e.verifier)'
               /\ \A r \in records'[q] : r.entry # e
    BY <2>1, <2>2, <2>8 DEF Crash, Used, TypeInv, TypeOK
  <2>9. ASSUME UNCHANGED <<keyring, records, signed>>
        PROVE  /\ e.verifier \in keyring'[q] => Used(e.verifier)'
               /\ \A r \in records'[q] : r.entry # e
    BY <2>2, <2>9 DEF Used
  <2>10. QED
    BY <1>1, <2>5, <2>6, <2>7, <2>8, <2>9
       DEF Next, vars, Open, ReadEntries, ReadHead, Close, BeginReadJoin,
           ReadJoinEntries, ReadJoinHead, ReadJoinState, ReadJoinRows, FailRead,
           Abort
<1>2. QED
  BY <1>1 DEF OrphansStay

(* close never commits over a dispatch whose evidence is lost.             *)
LEMMA NoCloseByOmission == IInv /\ [Next]_vars => OrphansNeverClose
<1>1. ASSUME IInv, [Next]_vars, row.terminal = "OPEN", OrphansExist
      PROVE  row'.terminal # "CLOSED"
  <2>1. PICK i \in DOMAIN entries : Orphaned(entries[i])
    BY <1>1 DEF OrphansExist
  <2>2. ASSUME NEW p \in Process, Close(p) PROVE FALSE
    <3>1. entries \in Seq(Entry) /\ records[p] \in SUBSET Record
      BY <1>1 DEF IInv, TypeInv, TypeOK
    <3>2. \E r \in records[p] : r.entry = entries[i]
      BY <2>2, <3>1, CloseCommits
    <3>3. QED
      BY <2>1, <3>2 DEF Orphaned
  <2>3. row \in StateRow
    BY <1>1 DEF IInv, TypeInv, TypeOK
  <2>4. QED
    BY <1>1, <2>2, <2>3, Writers
       DEF db, Open, InsertOrIgnore, Register, Complete, Abort, StateRow
<1>2. QED
  BY <1>1 DEF OrphansNeverClose

(* An orphaned dispatch stays orphaned and its run is never closed.        *)
THEOREM OrphansForever == Spec => OrphansAreForever
<1>1. IInv /\ [Next]_vars => OrphansStay /\ OrphansNeverClose
  BY OrphansStayLost, NoCloseByOmission
<1>2. QED
  BY <1>1, Invariance, PTL DEF Spec, OrphansAreForever

-----------------------------------------------------------------------------
(* Refinement.                                                             *)

(* An authority with an empty database is an abstract ledger with nothing  *)
(* dispatched.                                                             *)
LEMMA InitRefines == Init => Ledger!Init
BY DEF Init, Ledger!Init

(* Every authority step is a step of the abstract ledger or changes nothing*)
(* it shows: reads, refusals, lost races and crashes stutter.              *)
LEMMA StepRefines == IInv /\ [Next]_vars => [Ledger!Next]_(Ledger!vars)
<1> SUFFICES ASSUME IInv, [Next]_vars PROVE [Ledger!Next]_(Ledger!vars)
  OBVIOUS
<1> USE DEF Ledger!vars
<1>1. ASSUME NEW p \in Process, Open(p) PROVE UNCHANGED Ledger!vars
  BY <1>1 DEF Open, InsertOrIgnore
<1>2. ASSUME NEW p \in Process, NEW req \in Request, NEW s \in Signer,
             Register(p, req, s)
      PROVE  Ledger!Dispatch(req, s)
  <2>1. row'.terminal = row.terminal /\ row.terminal = "OPEN"
    BY <1>2 DEF Register, RunOpen, IInv, TypeInv, TypeOK, StateRow
  <2>2. QED
    BY <1>2, <2>1 DEF Register, CanAppend, NextEntry, Ledger!Dispatch
<1>3. ASSUME NEW p \in Process, NEW i \in DOMAIN view[p], NEW o \in Outcome,
             Complete(p, i, o)
      PROVE  Ledger!Answer(i, o)
  <2>1. /\ IsPrefix(view[p], entries)
        /\ view[p] \in Seq(Entry)
        /\ entries \in Seq(Entry)
    BY DEF IInv, CopiesArePrefixes, TypeInv, TypeOK
  <2>2. i \in DOMAIN entries /\ view[p][i] = entries[i]
    BY <2>1, PrefixPointwise
  <2>3. QED
    BY <1>3, <2>2 DEF Complete, Used, Ledger!Answer
<1>4. ASSUME NEW p \in Process, Close(p) PROVE Ledger!Seal
  <2>1. PICK joined \in Seq(Record) :
          /\ Len(joined) = Len(entries)
          /\ \A i \in DOMAIN entries :
               joined[i] \in signed /\ joined[i].entry = entries[i]
          /\ completions' = joined
          /\ row' = [row EXCEPT
                      !.terminal = "CLOSED",
                      !.receipt = CloseReceipt(row.head,
                                    CompletionSetDigest(row.head, joined))]
    BY <1>4, CloseCommits DEF IInv, TypeInv, TypeOK
  <2>2. row'.terminal = "CLOSED" /\ row.terminal = "OPEN" /\ entries # <<>>
    BY <1>4, <2>1 DEF Close, RunOpen, IsCurrent, IInv, TypeInv, TypeOK, StateRow
  <2>3. joined \in [1 .. Len(entries) -> signed]
    BY <2>1 DEF IInv, TypeInv, TypeOK
  <2>4. QED
    BY <1>4, <2>1, <2>2, <2>3 DEF Close, Ledger!Seal
<1>5. ASSUME NEW p \in Process, Abort(p) PROVE Ledger!Abandon
  <2>1. row.terminal = "OPEN" /\ row'.terminal = "ABORTED"
    BY <1>5 DEF Abort, RunOpen, IInv, TypeInv, TypeOK, StateRow
  <2>2. QED
    BY <1>5, <2>1 DEF Abort, Ledger!Abandon
<1>6. ASSUME UNCHANGED <<row, entries, completions, signed>>
      PROVE  UNCHANGED Ledger!vars
  BY <1>6
<1>7. QED
  <2>1. ASSUME NEW p \in Process, NEW i \in DOMAIN view[p], NEW o \in Outcome,
               Complete(p, i, o)
        PROVE  i \in DOMAIN entries
    BY <1>3, <2>1 DEF Ledger!Answer
  <2>2. QED
    BY <1>1, <1>2, <1>3, <1>4, <1>5, <1>6, <2>1, Writers DEF db, Ledger!Next

(* The authority, its racing processes, torn reads and crashes included,   *)
(* behaves as the run ledger of RunLedger.                                 *)
THEOREM Refinement == Spec => ImplementsRunLedger
<1>1. QED
  BY InitRefines, StepRefines, Invariance, PTL
     DEF Spec, ImplementsRunLedger, Ledger!Spec
=============================================================================
