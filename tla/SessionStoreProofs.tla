------------------------- MODULE SessionStoreProofs -------------------------
(***************************************************************************)
(* The safety of SessionStore, for any number of sessions, exports and     *)
(* alterations: what a directory loads after a persist, what a green audit *)
(* pack proves, that one altered is red, and that an undisturbed export is *)
(* green.                                                                  *)
(***************************************************************************)
EXTENDS SessionStore, TLAPS

IsContent(c) ==
  /\ c = [x \in {"of", "whole", "intact"} |-> c[x]]
  /\ c.of \in 0 .. MaxRuns /\ c.whole \in BOOLEAN /\ c.intact \in BOOLEAN

IsFiles(files) ==
  /\ files = [f \in SessionFile |-> files[f]]
  /\ \A f \in SessionFile : IsContent(files[f])

IsLedger(l) == l = [x \in {"export", "pin", "intact"} |-> l[x]]
IsProof(p) == p = [x \in {"export", "of", "events", "intact"} |-> p[x]]

\* What an export wrote into one manifest: a ledger and a proof of the same
\* export, the ledger's session, the outcome of the proof's, and copies no older.
IsManifest(m) ==
  /\ m = [x \in {"export", "pin", "outcome", "copies", "ledger", "proof",
                 "intact"} |-> m[x]]
  /\ m.export # 0 =>
       /\ m.ledger.export = m.export
       /\ m.ledger.pin = m.pin
       /\ m.outcome = session[m.proof.of].outcome
       /\ m.proof.of \in Nat
       /\ m.pin <= m.proof.of /\ m.proof.of <= m.copies["log"].of

IsPack ==
  /\ pack = [x \in {"copies", "ledger", "proof", "manifest", "checksum"} |->
               pack[x]]
  /\ IsFiles(pack.copies)
  /\ IsLedger(pack.ledger) /\ IsProof(pack.proof)
  /\ IsManifest(pack.manifest) /\ IsManifest(pack.checksum)

At == {"none", "load", "replay", "log", "spine", "meta", "ledger", "proof",
       "manifest", "checksum", "verify"}

TypeOK ==
  /\ runs \in 0 .. MaxRuns /\ exports \in Nat /\ tampers \in Nat
  /\ calm \in BOOLEAN
  /\ writer \in SessionFile \cup {"none"}
  /\ IsFiles(dir)
  /\ IsPack
  /\ exporter = [x \in {"at", "loaded", "replayed"} |-> exporter[x]]
  /\ exporter.at \in At

\* The files are replaced in their order, so that the last is the newest only
\* if all are.
Ordered ==
  /\ \A f \in SessionFile : dir[f].of <= runs
  /\ writer = "log" => \A f \in SessionFile : dir[f].of < runs
  /\ writer \in {"spine", "meta"} => dir["log"].of = runs /\ dir["meta"].of < runs
  /\ writer = "meta" => dir["spine"].of = runs
  /\ runs > 0 /\ dir["meta"].of = runs =>
       dir["log"].of = runs /\ dir["spine"].of = runs
  /\ tampers = 0 => \A f \in SessionFile : dir[f].whole /\ dir[f].intact

\* The files an export has written.
Exported ==
  /\ exporter.at # "none" => exports # 0 /\ told = "none"
  /\ exporter.at \in {"proof", "manifest"} =>
       pack.ledger.export = exports /\ pack.ledger.pin = exporter.loaded
  /\ exporter.at = "manifest" => pack.proof.of = exporter.replayed

\* What an export has read and copied, each no older than the one before.
Newer ==
  /\ exporter.at \notin {"none", "load"} =>
       exporter.loaded \in Nat /\ exporter.loaded <= dir["log"].of
  /\ exporter.at \notin {"none", "load", "replay"} =>
       /\ exporter.replayed \in Nat
       /\ exporter.loaded <= exporter.replayed
       /\ exporter.replayed <= dir["log"].of
  /\ exporter.at \in {"spine", "meta", "ledger", "proof", "manifest"} =>
       exporter.replayed <= pack.copies["log"].of

\* What an export has done that nothing disturbed: the directory loads, and
\* the pack has what the export has copied and written so far.
Undisturbed ==
  /\ Loads(dir)
  /\ exporter.loaded = dir["log"].of
  /\ exporter.at # "replay" => exporter.replayed = dir["log"].of
  /\ exporter.at \notin {"replay", "log"} => pack.copies["log"] = dir["log"]
  /\ exporter.at \notin {"replay", "log", "spine"} =>
       pack.copies["spine"] = dir["spine"]
  /\ exporter.at \in {"proof", "manifest", "checksum", "verify"} =>
       pack.ledger.intact
  /\ exporter.at \in {"manifest", "checksum", "verify"} =>
       /\ pack.proof.of = dir["log"].of
       /\ pack.proof.events = session[dir["log"].of].events
  /\ exporter.at \in {"checksum", "verify"} =>
       /\ pack.manifest.export # 0
       /\ pack.manifest.pin = dir["log"].of
       /\ pack.manifest.copies = pack.copies
       /\ pack.manifest.ledger = pack.ledger
       /\ pack.manifest.proof = pack.proof
  /\ exporter.at = "verify" => pack.checksum = pack.manifest

Calm == calm /\ exporter.at \notin {"none", "load"} => Undisturbed

IInv == TypeOK /\ Ordered /\ Exported /\ Newer /\ Calm /\ CalmExportIsGreen

-----------------------------------------------------------------------------
(* Whoever loads the same files loads the same.                            *)

LEMMA LoadsStays ==
  ASSUME UNCHANGED <<session, dir>>
  PROVE  Loads(dir)' <=> Loads(dir)
BY DEF Loads, Restores, Binds

LEMMA LogIsOf ==
  ASSUME IInv
  PROVE  dir["log"].of \in Nat /\ dir["log"].of <= runs /\ runs \in Nat
BY DEF IInv, TypeOK, IsFiles, IsContent, SessionFile, Ordered

\* An export whose step leaves the pack and itself.
LEMMA ExportStays ==
  ASSUME IInv, UNCHANGED <<session, pack, exporter, exports, told>>,
         calm' \in BOOLEAN, calm' => calm /\ dir' = dir,
         dir'["log"].of \in Nat, dir["log"].of <= dir'["log"].of
  PROVE  IsPack' /\ Exported' /\ Newer' /\ Calm' /\ CalmExportIsGreen'
<1>1. IsPack'
  BY DEF IInv, TypeOK, IsPack, IsManifest
<1>2. Exported'
  BY DEF IInv, Exported
<1>3. Calm'
  BY LoadsStays DEF IInv, Calm, Undisturbed
<1>4. CalmExportIsGreen'
  BY DEF IInv, CalmExportIsGreen
<1>5. Newer'
  BY LogIsOf DEF IInv, Newer
<1> QED
  BY <1>1, <1>2, <1>3, <1>4, <1>5

LEMMA BeginRunStep == IInv /\ BeginRun => IInv'
<1> SUFFICES ASSUME IInv, BeginRun PROVE IInv'
  OBVIOUS
<1> USE DEF BeginRun
<1>1. IsPack' /\ Exported' /\ Newer' /\ Calm' /\ CalmExportIsGreen'
  BY ExportStays, LogIsOf DEF IInv, TypeOK
<1>2. runs' = runs + 1 /\ runs \in Nat /\ runs' \in 0 .. MaxRuns
  BY BoundsAssumption DEF IInv, TypeOK
<1>3. TypeOK'
  BY <1>1, <1>2 DEF IInv, TypeOK, SessionFile
<1>4. Ordered'
  <2>1. \A f \in SessionFile : dir[f].of \in Nat /\ dir[f].of <= runs
    BY DEF IInv, TypeOK, IsFiles, IsContent, Ordered
  <2>2. \A f \in SessionFile : dir'[f].of < runs' /\ dir'[f].of <= runs'
    BY <1>2, <2>1
  <2>3. dir'["meta"].of # runs'
    BY <1>2, <2>2 DEF SessionFile
  <2>4. writer' = "log"
    OBVIOUS
  <2>5. tampers' = 0 => \A f \in SessionFile : dir'[f].whole /\ dir'[f].intact
    BY DEF IInv, Ordered
  <2> QED
    BY <2>2, <2>3, <2>4, <2>5 DEF Ordered
<1> QED
  BY <1>1, <1>3, <1>4 DEF IInv

LEMMA PersistStep == IInv /\ Persist => IInv'
<1> SUFFICES ASSUME IInv, Persist PROVE IInv'
  OBVIOUS
<1> DEFINE c == Content(runs)
<1>2. IsContent(c) /\ c.of = runs /\ c.whole = TRUE /\ c.intact = TRUE
  BY DEF IsContent, Content, IInv, TypeOK
<1> HIDE DEF c
<1>3. /\ writer \in SessionFile /\ dir'[writer] = c
      /\ \A f \in SessionFile : f # writer => dir'[f] = dir[f]
      /\ dir' = [f \in SessionFile |-> dir'[f]]
      /\ UNCHANGED <<runs, tampers>>
  BY DEF Persist, Replaced, IInv, TypeOK, IsFiles, c
<1>4. IsFiles(dir)'
  BY <1>2, <1>3 DEF IInv, TypeOK, IsFiles
<1>5. writer' \in SessionFile \cup {"none"}
      /\ (writer = "log" => writer' = "spine")
      /\ (writer = "spine" => writer' = "meta")
      /\ (writer = "meta" => writer' = "none")
  BY <1>3 DEF Persist, After, SessionFile
<1>1. IsPack' /\ Exported' /\ Newer' /\ Calm' /\ CalmExportIsGreen'
  <2>1. dir'["log"].of \in Nat /\ dir["log"].of <= dir'["log"].of
    BY <1>2, <1>3, LogIsOf DEF SessionFile
  <2>2. /\ UNCHANGED <<session, pack, exporter, exports, told>>
        /\ calm' = FALSE
    BY DEF Persist
  <2> QED
    BY <2>1, <2>2, ExportStays
<1>6. TypeOK'
  BY <1>1, <1>4, <1>5 DEF IInv, TypeOK, Persist
<1>7. Ordered'
  <2>1. \A f \in SessionFile : dir[f].of \in Nat /\ runs \in Nat
    BY DEF IInv, TypeOK, IsFiles, IsContent
  <2>2. tampers' = 0 => \A f \in SessionFile : dir'[f].whole /\ dir'[f].intact
    BY <1>2, <1>3 DEF IInv, Ordered
  <2>3. \A f \in SessionFile : dir'[f].of <= runs'
    BY <1>2, <1>3, <2>1 DEF IInv, Ordered
  <2>4. writer = "log" \/ writer = "spine" \/ writer = "meta"
    BY <1>3 DEF SessionFile
  <2>5. {"log", "spine", "meta"} = SessionFile
    BY DEF SessionFile
  <2>6. CASE writer = "log"
    BY <1>2, <1>3, <1>5, <2>1, <2>2, <2>3, <2>5, <2>6 DEF IInv, Ordered
  <2>7. CASE writer = "spine"
    BY <1>2, <1>3, <1>5, <2>1, <2>2, <2>3, <2>5, <2>7 DEF IInv, Ordered
  <2>8. CASE writer = "meta"
    BY <1>2, <1>3, <1>5, <2>1, <2>2, <2>3, <2>5, <2>8 DEF IInv, Ordered
  <2> QED
    BY <2>4, <2>6, <2>7, <2>8
<1> QED
  BY <1>1, <1>6, <1>7 DEF IInv

LEMMA PersistDiesStep == IInv /\ PersistDies => IInv'
<1> SUFFICES ASSUME IInv, PersistDies PROVE IInv'
  OBVIOUS
<1> USE DEF PersistDies
<1>1. IsPack' /\ Exported' /\ Newer' /\ Calm' /\ CalmExportIsGreen'
  BY ExportStays, LogIsOf DEF IInv, TypeOK
<1>2. TypeOK'
  BY <1>1 DEF IInv, TypeOK
<1>3. Ordered'
  BY DEF IInv, Ordered
<1> QED
  BY <1>1, <1>2, <1>3 DEF IInv

-----------------------------------------------------------------------------
(* The export.                                                             *)

\* What a step of the export leaves.
LEMMA DirectoryStays ==
  ASSUME IInv, Unrelated
  PROVE  /\ Ordered' /\ IsFiles(dir)' /\ UNCHANGED <<session, dir>>
         /\ Loads(dir)' <=> Loads(dir)
<1>1. UNCHANGED <<session, dir>> /\ Ordered' /\ IsFiles(dir)'
  BY DEF IInv, TypeOK, Ordered, Unrelated, IsFiles
<1> QED
  BY <1>1, LoadsStays

\* The steps that write nothing.
LEMMA NothingWritten ==
  ASSUME IInv, Unrelated, UNCHANGED pack, exports' \in Nat, calm' \in BOOLEAN,
         exporter' = [x \in {"at", "loaded", "replayed"} |-> exporter'[x]],
         exporter'.at \in At
  PROVE  TypeOK' /\ Ordered'
<1>1. Ordered' /\ IsFiles(dir)' /\ UNCHANGED <<session, dir>>
  BY DirectoryStays
<1>2. IsPack'
  BY <1>1 DEF IInv, TypeOK, IsPack, IsManifest
<1> QED
  BY <1>1, <1>2 DEF IInv, TypeOK, Unrelated

LEMMA ReadSteps ==
  ASSUME IInv,
         ExportStops \/ Begins \/ LoadForPack \/ ReplayForPack \/ ExportEnds
  PROVE  IInv'
<1> USE DEF At
<1>1. Unrelated /\ UNCHANGED pack
  BY DEF ExportStops, Begins, LoadForPack, ReplayForPack, ExportEnds
<1>2. UNCHANGED <<session, dir>> /\ (Loads(dir)' <=> Loads(dir))
  BY <1>1, DirectoryStays
<1>3. CASE ExportStops
  <2>1. exporter' = NoExport /\ exporter'.at = "none" /\ told' = "stopped"
        /\ UNCHANGED <<exports, calm>>
    BY <1>3 DEF ExportStops, NoExport
  <2>2. TypeOK' /\ Ordered'
    BY <1>1, <2>1, NothingWritten DEF NoExport, IInv, TypeOK
  <2>3. Exported' /\ Newer' /\ Calm' /\ CalmExportIsGreen'
    BY <2>1 DEF Exported, Newer, Calm, CalmExportIsGreen
  <2> QED
    BY <2>2, <2>3 DEF IInv
<1>4. CASE Begins
  <2>1. exporter' = [at |-> "load", loaded |-> 0, replayed |-> 0]
        /\ exporter'.at = "load" /\ told' = "none" /\ exports' = exports + 1
        /\ calm' = calm
    BY <1>4 DEF Begins, NoExport
  <2>2. exports' \in Nat /\ exports' # 0
    BY <2>1 DEF IInv, TypeOK
  <2>3. TypeOK' /\ Ordered'
    BY <1>1, <2>1, <2>2, NothingWritten DEF IInv, TypeOK
  <2>4. Exported' /\ Newer' /\ Calm' /\ CalmExportIsGreen'
    BY <2>1, <2>2 DEF Exported, Newer, Calm, CalmExportIsGreen
  <2> QED
    BY <2>3, <2>4 DEF IInv
<1>5. CASE LoadForPack
  <2>1. /\ exporter' = [x \in {"at", "loaded", "replayed"} |-> exporter'[x]]
        /\ exporter'.at = "replay" /\ exporter'.loaded = dir["log"].of
        /\ Loads(dir) /\ calm' = TRUE /\ UNCHANGED <<exports, told>>
        /\ exports # 0 /\ told = "none"
    BY <1>5 DEF LoadForPack, IInv, TypeOK, Exported
  <2>2. calm' \in BOOLEAN /\ exports' \in Nat
    BY <2>1 DEF IInv, TypeOK
  <2>3. TypeOK' /\ Ordered'
    BY <1>1, <2>1, <2>2, NothingWritten
  <2>4. Exported' /\ Newer' /\ CalmExportIsGreen'
    BY <1>2, <2>1, LogIsOf DEF Exported, Newer, CalmExportIsGreen
  <2>5. Undisturbed'
    BY <1>2, <2>1 DEF Undisturbed
  <2> QED
    BY <2>3, <2>4, <2>5 DEF IInv, Calm
<1>6. CASE ReplayForPack
  <2>1. /\ exporter' = [x \in {"at", "loaded", "replayed"} |-> exporter'[x]]
        /\ exporter'.at = "log" /\ exporter'.loaded = exporter.loaded
        /\ exporter'.replayed = dir["log"].of
        /\ exporter.at = "replay" /\ calm' = calm /\ UNCHANGED <<exports, told>>
        /\ exports # 0 /\ told = "none"
    BY <1>6 DEF ReplayForPack, IInv, TypeOK, Exported
  <2>2. calm' \in BOOLEAN /\ exports' \in Nat
    BY <2>1 DEF IInv, TypeOK
  <2>3. TypeOK' /\ Ordered'
    BY <1>1, <2>1, <2>2, NothingWritten
  <2>4. Exported' /\ Newer' /\ CalmExportIsGreen'
    BY <1>2, <2>1, LogIsOf DEF IInv, Exported, Newer, CalmExportIsGreen
  <2>5. calm => Undisturbed'
    BY <1>2, <2>1 DEF Undisturbed, IInv, Calm
  <2> QED
    BY <2>1, <2>3, <2>4, <2>5 DEF IInv, Calm
<1>7. CASE ExportEnds
  <2>1. exporter' = NoExport /\ exporter'.at = "none" /\ exporter.at = "verify"
        /\ told' = (IF PackVerifies THEN "green" ELSE "red")
        /\ UNCHANGED <<exports, calm>>
    BY <1>7 DEF ExportEnds, NoExport
  <2>2. TypeOK' /\ Ordered'
    BY <1>1, <2>1, NothingWritten DEF NoExport, IInv, TypeOK
  <2>3. calm => PackVerifies
    <3> SUFFICES ASSUME calm PROVE PackVerifies
      OBVIOUS
    <3>1. Undisturbed
      BY <2>1 DEF IInv, Calm
    <3>2. Loads(pack.copies)
      BY <2>1, <3>1 DEF Undisturbed, Loads
    <3>3. dir["spine"].of = dir["log"].of
      BY <3>1 DEF Undisturbed, Loads, Binds
    <3> QED
      BY <2>1, <3>1, <3>2, <3>3
         DEF Undisturbed, PackVerifies, ManifestReads, SessionsMatch
  <2>4. Exported' /\ Newer' /\ Calm' /\ CalmExportIsGreen'
    BY <2>1, <2>3 DEF Exported, Newer, Calm, CalmExportIsGreen
  <2> QED
    BY <2>2, <2>4 DEF IInv
<1> QED
  BY <1>3, <1>4, <1>5, <1>6, <1>7

\* One of the files of the pack is written, and the export goes on to `at`.
LEMMA Writes ==
  ASSUME IInv, Unrelated, UNCHANGED <<exports, told, calm>>, IsPack',
         NEW at \in At, exporter' = [exporter EXCEPT !.at = at],
         Exported', Newer', calm /\ exporter.at \notin {"none", "load"} => Undisturbed',
         exporter.at \notin {"none", "load"}
  PROVE  IInv'
<1>1. Ordered' /\ IsFiles(dir)' /\ UNCHANGED <<session, dir>>
  BY DirectoryStays
<1>2. /\ exporter' = [x \in {"at", "loaded", "replayed"} |-> exporter'[x]]
      /\ exporter'.at = at
  BY DEF IInv, TypeOK
<1>3. TypeOK'
  BY <1>1, <1>2 DEF IInv, TypeOK, Unrelated
<1>4. Calm' /\ CalmExportIsGreen'
  BY DEF IInv, Calm, CalmExportIsGreen
<1> QED
  BY <1>1, <1>3, <1>4 DEF IInv

LEMMA CopyFileStep == IInv /\ CopyFile => IInv'
<1> SUFFICES ASSUME IInv, CopyFile PROVE IInv'
  OBVIOUS
<1> DEFINE f == exporter.at
           at == IF f = "meta" THEN "ledger" ELSE After(f)
           was == pack.copies
           new == [was EXCEPT ![f] = dir[f]]
<1>1. /\ f \in SessionFile /\ Unrelated /\ UNCHANGED <<exports, told, calm>>
      /\ exporter' = [exporter EXCEPT !.at = at]
      /\ pack' = [pack EXCEPT !.copies = new]
  BY DEF CopyFile
<1>2. /\ f = "log" => at = "spine"
      /\ f = "spine" => at = "meta"
      /\ f = "meta" => at = "ledger"
      /\ f = "log" \/ f = "spine" \/ f = "meta"
  BY <1>1 DEF After, SessionFile
<1>3. /\ new[f] = dir[f] /\ \A g \in SessionFile : g # f => new[g] = was[g]
      /\ new = [g \in SessionFile |-> new[g]] /\ IsFiles(new)
  BY <1>1 DEF IInv, TypeOK, IsPack, IsFiles
<1>4. /\ exporter'.at = at /\ exporter'.loaded = exporter.loaded
      /\ exporter'.replayed = exporter.replayed
  BY <1>1 DEF IInv, TypeOK
<1>5. /\ pack' = [x \in {"copies", "ledger", "proof", "manifest", "checksum"} |->
                    pack'[x]]
      /\ pack'.copies = new /\ pack'.ledger = pack.ledger
      /\ pack'.proof = pack.proof /\ pack'.manifest = pack.manifest
      /\ pack'.checksum = pack.checksum
  BY <1>1 DEF IInv, TypeOK, IsPack
<1>6. pack'.copies["log"] = new["log"] /\ pack'.copies["spine"] = new["spine"]
  BY <1>5
<1>7. {"log", "spine"} \subseteq SessionFile
  BY DEF SessionFile
<1> HIDE DEF new, at, f
<1>8. at \in At
  BY <1>2 DEF At
<1>9. UNCHANGED <<session, dir>> /\ (Loads(dir)' <=> Loads(dir))
  BY <1>1, DirectoryStays
<1>10. IsPack'
  BY <1>3, <1>5, <1>9 DEF IInv, TypeOK, IsPack, IsFiles, IsManifest, IsContent
<1>11. f # "none" /\ f # "load"
  BY <1>2
<1>12. Exported'
  BY <1>1, <1>2, <1>4, <1>11 DEF IInv, Exported, f
<1>14. Newer'
  <2>1. CASE f = "log"
    BY <1>2, <1>3, <1>4, <1>6, <1>9, <2>1 DEF IInv, Newer, f
  <2>2. CASE f # "log"
    BY <1>2, <1>3, <1>4, <1>6, <1>7, <1>9, <2>2 DEF IInv, Newer, f
  <2> QED
    BY <2>1, <2>2
<1>13. calm => Undisturbed'
  BY <1>2, <1>3, <1>4, <1>6, <1>7, <1>9 DEF IInv, Calm, Undisturbed, f
<1> QED
  BY <1>1, <1>8, <1>10, <1>11, <1>12, <1>13, <1>14, Writes DEF f

LEMMA WriteLedgerStep == IInv /\ WriteLedger => IInv'
<1> SUFFICES ASSUME IInv, WriteLedger PROVE IInv'
  OBVIOUS
<1> DEFINE l == [export |-> exports, intact |-> TRUE, pin |-> exporter.loaded]
<1>1. /\ exporter.at = "ledger" /\ Unrelated /\ UNCHANGED <<exports, told, calm>>
      /\ exporter' = [exporter EXCEPT !.at = "proof"]
      /\ pack' = [pack EXCEPT !.ledger = l]
  BY DEF WriteLedger
<1>2. IsLedger(l) /\ l.export = exports /\ l.intact /\ l.pin = exporter.loaded
  BY DEF IsLedger
<1> HIDE DEF l
<1>3. /\ exporter'.at = "proof" /\ exporter'.loaded = exporter.loaded
      /\ exporter'.replayed = exporter.replayed
  BY <1>1 DEF IInv, TypeOK
<1>4. /\ pack' = [x \in {"copies", "ledger", "proof", "manifest", "checksum"} |->
                    pack'[x]]
      /\ pack'.copies = pack.copies /\ pack'.ledger = l
      /\ pack'.proof = pack.proof /\ pack'.manifest = pack.manifest
      /\ pack'.checksum = pack.checksum
  BY <1>1 DEF IInv, TypeOK, IsPack
<1>5. UNCHANGED <<session, dir>> /\ (Loads(dir)' <=> Loads(dir))
  BY <1>1, DirectoryStays
<1>6. IsPack'
  BY <1>2, <1>4, <1>5 DEF IInv, TypeOK, IsPack, IsFiles, IsManifest
<1>7. Exported'
  BY <1>1, <1>2, <1>3, <1>4 DEF IInv, Exported
<1>9. Newer'
  BY <1>1, <1>3, <1>4, <1>5 DEF IInv, Newer
<1>8. calm => Undisturbed'
  BY <1>1, <1>2, <1>3, <1>4, <1>5 DEF IInv, Calm, Undisturbed
<1> QED
  BY <1>1, <1>6, <1>7, <1>8, <1>9, Writes DEF At

LEMMA WriteProofStep == IInv /\ WriteProof => IInv'
<1> SUFFICES ASSUME IInv, WriteProof PROVE IInv'
  OBVIOUS
<1> DEFINE p == [export |-> exports, intact |-> TRUE,
                 of |-> exporter.replayed,
                 events |-> session[exporter.replayed].events]
<1>1. /\ exporter.at = "proof" /\ Unrelated /\ UNCHANGED <<exports, told, calm>>
      /\ exporter' = [exporter EXCEPT !.at = "manifest"]
      /\ pack' = [pack EXCEPT !.proof = p]
  BY DEF WriteProof
<1>2. /\ IsProof(p) /\ p.of = exporter.replayed
      /\ p.events = session[exporter.replayed].events
  BY DEF IsProof
<1> HIDE DEF p
<1>3. /\ exporter'.at = "manifest" /\ exporter'.loaded = exporter.loaded
      /\ exporter'.replayed = exporter.replayed
  BY <1>1 DEF IInv, TypeOK
<1>4. /\ pack' = [x \in {"copies", "ledger", "proof", "manifest", "checksum"} |->
                    pack'[x]]
      /\ pack'.copies = pack.copies /\ pack'.ledger = pack.ledger
      /\ pack'.proof = p /\ pack'.manifest = pack.manifest
      /\ pack'.checksum = pack.checksum
  BY <1>1 DEF IInv, TypeOK, IsPack
<1>5. UNCHANGED <<session, dir>> /\ (Loads(dir)' <=> Loads(dir))
  BY <1>1, DirectoryStays
<1>6. IsPack'
  BY <1>2, <1>4, <1>5 DEF IInv, TypeOK, IsPack, IsFiles, IsManifest
<1>7. Exported'
  BY <1>1, <1>2, <1>3, <1>4 DEF IInv, Exported
<1>9. Newer'
  BY <1>1, <1>3, <1>4, <1>5 DEF IInv, Newer
<1>8. calm => Undisturbed'
  BY <1>1, <1>2, <1>3, <1>4, <1>5 DEF IInv, Calm, Undisturbed
<1> QED
  BY <1>1, <1>6, <1>7, <1>8, <1>9, Writes DEF At

LEMMA WriteManifestStep == IInv /\ WriteManifest => IInv'
<1> SUFFICES ASSUME IInv, WriteManifest PROVE IInv'
  OBVIOUS
<1> DEFINE m == [export |-> exports, pin |-> exporter.loaded, intact |-> TRUE,
                 outcome |-> session[exporter.replayed].outcome,
                 copies |-> pack.copies, ledger |-> pack.ledger,
                 proof |-> pack.proof]
<1>1. /\ exporter.at = "manifest" /\ Unrelated
      /\ UNCHANGED <<exports, told, calm>>
      /\ exporter' = [exporter EXCEPT !.at = "checksum"]
      /\ pack' = [pack EXCEPT !.manifest = m]
  BY DEF WriteManifest
<1>2. /\ m = [x \in {"export", "pin", "outcome", "copies", "ledger", "proof",
                     "intact"} |-> m[x]]
      /\ m.export = exports /\ m.pin = exporter.loaded
      /\ m.copies = pack.copies /\ m.ledger = pack.ledger /\ m.proof = pack.proof
      /\ m.outcome = session[exporter.replayed].outcome
  OBVIOUS
<1> HIDE DEF m
<1>3. /\ exporter'.at = "checksum" /\ exporter'.loaded = exporter.loaded
      /\ exporter'.replayed = exporter.replayed
  BY <1>1 DEF IInv, TypeOK
<1>4. /\ pack' = [x \in {"copies", "ledger", "proof", "manifest", "checksum"} |->
                    pack'[x]]
      /\ pack'.copies = pack.copies /\ pack'.ledger = pack.ledger
      /\ pack'.proof = pack.proof /\ pack'.manifest = m
      /\ pack'.checksum = pack.checksum
  BY <1>1 DEF IInv, TypeOK, IsPack
<1>5. UNCHANGED <<session, dir>> /\ (Loads(dir)' <=> Loads(dir))
  BY <1>1, DirectoryStays
<1>6. IsManifest(m)
  BY <1>1, <1>2 DEF IsManifest, IInv, Exported, Newer
<1>7. IsPack'
  BY <1>4, <1>5, <1>6 DEF IInv, TypeOK, IsPack, IsFiles, IsManifest
<1>8. Exported' /\ exports # 0
  BY <1>1, <1>3 DEF IInv, Exported
<1>10. Newer'
  BY <1>1, <1>3, <1>4, <1>5 DEF IInv, Newer
<1>9. calm => Undisturbed'
  BY <1>1, <1>2, <1>3, <1>4, <1>5, <1>8 DEF IInv, Calm, Undisturbed
<1> QED
  BY <1>1, <1>7, <1>8, <1>9, <1>10, Writes DEF At

LEMMA WriteChecksumStep == IInv /\ WriteChecksum => IInv'
<1> SUFFICES ASSUME IInv, WriteChecksum PROVE IInv'
  OBVIOUS
<1>1. /\ exporter.at = "checksum" /\ Unrelated
      /\ UNCHANGED <<exports, told, calm>>
      /\ exporter' = [exporter EXCEPT !.at = "verify"]
      /\ pack' = [pack EXCEPT !.checksum = pack.manifest]
  BY DEF WriteChecksum
<1>3. /\ exporter'.at = "verify" /\ exporter'.loaded = exporter.loaded
      /\ exporter'.replayed = exporter.replayed
  BY <1>1 DEF IInv, TypeOK
<1>4. /\ pack' = [x \in {"copies", "ledger", "proof", "manifest", "checksum"} |->
                    pack'[x]]
      /\ pack'.copies = pack.copies /\ pack'.ledger = pack.ledger
      /\ pack'.proof = pack.proof /\ pack'.manifest = pack.manifest
      /\ pack'.checksum = pack.manifest
  BY <1>1 DEF IInv, TypeOK, IsPack
<1>5. UNCHANGED <<session, dir>> /\ (Loads(dir)' <=> Loads(dir))
  BY <1>1, DirectoryStays
<1>7. IsPack'
  BY <1>4, <1>5 DEF IInv, TypeOK, IsPack, IsFiles, IsManifest
<1>8. Exported'
  BY <1>1, <1>3 DEF IInv, Exported
<1>10. Newer'
  BY <1>1, <1>3, <1>4, <1>5 DEF IInv, Newer
<1>9. calm => Undisturbed'
  BY <1>1, <1>3, <1>4, <1>5 DEF IInv, Calm, Undisturbed
<1> QED
  BY <1>1, <1>7, <1>8, <1>9, <1>10, Writes DEF At

-----------------------------------------------------------------------------
(* Alterations.                                                            *)

LEMMA AlteredIs ==
  ASSUME NEW was, IsContent(was), NEW c \in Altered(was)
  PROVE  IsContent(c) /\ c.of = was.of /\ (~c.whole \/ ~c.intact) /\ was.of # 0
BY DEF IsContent, Altered

\* The pack is one with something altered: a copy, or what is not intact any
\* more in one of the other files.
CopyAltered ==
  /\ IsFiles(pack.copies)'
  /\ pack.copies'["log"].of = pack.copies["log"].of
  /\ UNCHANGED <<pack.ledger, pack.proof, pack.manifest, pack.checksum>>
LedgerAltered ==
  /\ pack.ledger' = [pack.ledger EXCEPT !.intact = FALSE]
  /\ UNCHANGED <<pack.copies, pack.proof, pack.manifest, pack.checksum>>
ProofAltered ==
  /\ pack.proof' = [pack.proof EXCEPT !.intact = FALSE]
  /\ UNCHANGED <<pack.copies, pack.ledger, pack.manifest, pack.checksum>>
ManifestAltered ==
  /\ pack.manifest' = [pack.manifest EXCEPT !.intact = FALSE]
  /\ UNCHANGED <<pack.copies, pack.ledger, pack.proof, pack.checksum>>
ChecksumAltered ==
  /\ pack.checksum' = [pack.checksum EXCEPT !.intact = FALSE]
  /\ UNCHANGED <<pack.copies, pack.ledger, pack.proof, pack.manifest>>

PackAltered ==
  /\ pack' = [x \in {"copies", "ledger", "proof", "manifest", "checksum"} |->
                pack'[x]]
  /\ \/ CopyAltered \/ LedgerAltered \/ ProofAltered \/ ManifestAltered
     \/ ChecksumAltered

LEMMA TamperIs ==
  ASSUME IInv, Tamper
  PROVE  /\ UNCHANGED <<session, runs, writer, exporter, exports, told>>
         /\ tampers' = tampers + 1 /\ calm' = FALSE
         /\ \/ /\ pack' = pack
               /\ \E f \in SessionFile : \E c \in Altered(dir[f]) :
                    dir' = [dir EXCEPT ![f] = c]
            \/ dir' = dir /\ PackAltered
<1>1. pack = [x \in {"copies", "ledger", "proof", "manifest", "checksum"} |->
                pack[x]]
  BY DEF IInv, TypeOK, IsPack
<1>2. ASSUME NEW f \in SessionFile, NEW c \in Altered(pack.copies[f]),
             pack' = [pack EXCEPT !.copies[f] = c]
      PROVE  PackAltered
  <2> DEFINE was == pack.copies
             new == [was EXCEPT ![f] = c]
  <2>1. pack' = [pack EXCEPT !.copies = new]
    BY <1>2
  <2>2. IsFiles(was) /\ c \in Altered(was[f])
    BY DEF IInv, TypeOK, IsPack
  <2>3. IsContent(c)
    BY <2>2, AlteredIs DEF IsFiles
  <2>4. IsFiles(new)
    BY <2>2, <2>3 DEF IsFiles
  <2> HIDE DEF was, new
  <2>5. /\ pack' = [x \in {"copies", "ledger", "proof", "manifest", "checksum"} |->
                      pack'[x]]
        /\ pack'.copies = new
        /\ UNCHANGED <<pack.ledger, pack.proof, pack.manifest, pack.checksum>>
    BY <1>1, <2>1
  <2>6. IsFiles(pack.copies)'
    BY <2>4, <2>5 DEF IsFiles, IsContent
  <2>7. pack.copies'["log"].of = pack.copies["log"].of
    <3>1. new["log"].of = was["log"].of
      BY <2>2, AlteredIs DEF IsFiles, SessionFile, new
    <3> QED
      BY <2>5, <3>1 DEF was
  <2> QED
    BY <2>5, <2>6, <2>7 DEF PackAltered, CopyAltered
<1>3. ASSUME pack' = [pack EXCEPT !.ledger.intact = FALSE] PROVE PackAltered
  <2> DEFINE new == [pack.ledger EXCEPT !.intact = FALSE]
  <2>1. pack' = [pack EXCEPT !.ledger = new]
    BY <1>3
  <2> HIDE DEF new
  <2>2. /\ pack' = [x \in {"copies", "ledger", "proof", "manifest", "checksum"} |->
                      pack'[x]]
        /\ pack.ledger' = new
        /\ UNCHANGED <<pack.copies, pack.proof, pack.manifest, pack.checksum>>
    BY <1>1, <2>1
  <2>3. pack.ledger' = [pack.ledger EXCEPT !.intact = FALSE]
    BY <2>2 DEF new
  <2>4. LedgerAltered
    BY <2>2, <2>3 DEF LedgerAltered
  <2> QED
    BY <2>2, <2>4 DEF PackAltered
<1>4. ASSUME pack' = [pack EXCEPT !.proof.intact = FALSE] PROVE PackAltered
  <2> DEFINE new == [pack.proof EXCEPT !.intact = FALSE]
  <2>1. pack' = [pack EXCEPT !.proof = new]
    BY <1>4
  <2> HIDE DEF new
  <2>2. /\ pack' = [x \in {"copies", "ledger", "proof", "manifest", "checksum"} |->
                      pack'[x]]
        /\ pack.proof' = new
        /\ UNCHANGED <<pack.copies, pack.ledger, pack.manifest, pack.checksum>>
    BY <1>1, <2>1
  <2>3. pack.proof' = [pack.proof EXCEPT !.intact = FALSE]
    BY <2>2 DEF new
  <2>4. ProofAltered
    BY <2>2, <2>3 DEF ProofAltered
  <2> QED
    BY <2>2, <2>4 DEF PackAltered
<1>5. ASSUME pack' = [pack EXCEPT !.manifest.intact = FALSE] PROVE PackAltered
  <2> DEFINE new == [pack.manifest EXCEPT !.intact = FALSE]
  <2>1. pack' = [pack EXCEPT !.manifest = new]
    BY <1>5
  <2> HIDE DEF new
  <2>2. /\ pack' = [x \in {"copies", "ledger", "proof", "manifest", "checksum"} |->
                      pack'[x]]
        /\ pack.manifest' = new
        /\ UNCHANGED <<pack.copies, pack.ledger, pack.proof, pack.checksum>>
    BY <1>1, <2>1
  <2>3. pack.manifest' = [pack.manifest EXCEPT !.intact = FALSE]
    BY <2>2 DEF new
  <2>4. ManifestAltered
    BY <2>2, <2>3 DEF ManifestAltered
  <2> QED
    BY <2>2, <2>4 DEF PackAltered
<1>6. ASSUME pack' = [pack EXCEPT !.checksum.intact = FALSE] PROVE PackAltered
  <2> DEFINE new == [pack.checksum EXCEPT !.intact = FALSE]
  <2>1. pack' = [pack EXCEPT !.checksum = new]
    BY <1>6
  <2> HIDE DEF new
  <2>2. /\ pack' = [x \in {"copies", "ledger", "proof", "manifest", "checksum"} |->
                      pack'[x]]
        /\ pack.checksum' = new
        /\ UNCHANGED <<pack.copies, pack.ledger, pack.proof, pack.manifest>>
    BY <1>1, <2>1
  <2>3. pack.checksum' = [pack.checksum EXCEPT !.intact = FALSE]
    BY <2>2 DEF new
  <2>4. ChecksumAltered
    BY <2>2, <2>3 DEF ChecksumAltered
  <2> QED
    BY <2>2, <2>4 DEF PackAltered
<1> QED
  BY <1>2, <1>3, <1>4, <1>5, <1>6 DEF Tamper

LEMMA ManifestStays ==
  ASSUME NEW m, IsManifest(m), session' = session
  PROVE  IsManifest(m)' /\ IsManifest([m EXCEPT !.intact = FALSE])'
BY DEF IsManifest

LEMMA TamperStep == IInv /\ Tamper => IInv'
<1> SUFFICES ASSUME IInv, Tamper PROVE IInv'
  OBVIOUS
<1>1. /\ UNCHANGED <<session, runs, writer, exporter, exports, told>>
      /\ tampers' = tampers + 1 /\ tampers' \in Nat /\ tampers' # 0
      /\ calm' = FALSE /\ calm' \in BOOLEAN
  <2>1. /\ UNCHANGED <<session, runs, writer, exporter, exports, told>>
        /\ tampers' = tampers + 1 /\ calm' = FALSE
    BY TamperIs
  <2>2. tampers \in Nat
    BY DEF IInv, TypeOK
  <2>3. tampers' \in Nat /\ tampers' # 0
    BY <2>1, <2>2
  <2>4. calm' \in BOOLEAN
    BY <2>1
  <2> QED
    BY <2>1, <2>3, <2>4
<1>2. CASE /\ pack' = pack
           /\ \E f \in SessionFile : \E c \in Altered(dir[f]) :
                dir' = [dir EXCEPT ![f] = c]
  <2>1. PICK f \in SessionFile : \E c \in Altered(dir[f]) :
               dir' = [dir EXCEPT ![f] = c]
    BY <1>2
  <2>2. PICK c \in Altered(dir[f]) : dir' = [dir EXCEPT ![f] = c]
    BY <2>1
  <2>3. IsContent(c) /\ c.of = dir[f].of
    BY AlteredIs DEF IInv, TypeOK, IsFiles
  <2>4. /\ dir'[f] = c /\ \A g \in SessionFile : g # f => dir'[g] = dir[g]
        /\ dir' = [g \in SessionFile |-> dir'[g]]
    BY <2>2 DEF IInv, TypeOK, IsFiles
  <2>5. IsFiles(dir)' /\ \A g \in SessionFile : dir'[g].of = dir[g].of
    BY <2>3, <2>4 DEF IInv, TypeOK, IsFiles
  <2>9. dir'["log"].of = dir["log"].of
    BY <2>5 DEF SessionFile
  <2>6. IsPack' /\ Exported' /\ Newer' /\ Calm' /\ CalmExportIsGreen'
    BY <1>1, <1>2, <2>9, LogIsOf, ExportStays
  <2>7. Ordered'
    BY <1>1, <2>5 DEF IInv, Ordered, SessionFile
  <2>8. TypeOK'
    BY <1>1, <2>5, <2>6 DEF IInv, TypeOK
  <2> QED
    BY <2>6, <2>7, <2>8 DEF IInv
<1>3. CASE dir' = dir /\ PackAltered
  <2>1. /\ IsFiles(pack.copies) /\ IsLedger(pack.ledger) /\ IsProof(pack.proof)
        /\ IsManifest(pack.manifest) /\ IsManifest(pack.checksum)
    BY DEF IInv, TypeOK, IsPack
  <2>2. IsFiles(pack.copies)'
    BY <1>3, <2>1 DEF PackAltered, CopyAltered, LedgerAltered, ProofAltered,
                      ManifestAltered, ChecksumAltered, IsFiles, IsContent
  <2>3. /\ IsLedger(pack.ledger)' /\ IsProof(pack.proof)'
        /\ pack.ledger'.export = pack.ledger.export
        /\ pack.ledger'.pin = pack.ledger.pin
        /\ pack.proof'.of = pack.proof.of
    BY <1>3, <2>1 DEF PackAltered, CopyAltered, LedgerAltered, ProofAltered,
                      ManifestAltered, ChecksumAltered, IsLedger, IsProof
  <2>4. IsManifest(pack.manifest)' /\ IsManifest(pack.checksum)'
    <3>1. \/ pack.manifest' = pack.manifest
          \/ pack.manifest' = [pack.manifest EXCEPT !.intact = FALSE]
      BY <1>3 DEF PackAltered, CopyAltered, LedgerAltered, ProofAltered,
                  ManifestAltered, ChecksumAltered
    <3>2. \/ pack.checksum' = pack.checksum
          \/ pack.checksum' = [pack.checksum EXCEPT !.intact = FALSE]
      BY <1>3 DEF PackAltered, CopyAltered, LedgerAltered, ProofAltered,
                  ManifestAltered, ChecksumAltered
    <3>3. IsManifest(pack.manifest)'
      BY <1>1, <2>1, <3>1 DEF IsManifest
    <3>4. IsManifest(pack.checksum)'
      BY <1>1, <2>1, <3>2 DEF IsManifest
    <3> QED
      BY <3>3, <3>4
  <2>5. IsPack'
    BY <1>3, <2>2, <2>3, <2>4 DEF IsPack, PackAltered
  <2>6. Exported' /\ Newer'
    <3>1. pack'.copies["log"].of = pack.copies["log"].of
      BY <1>3 DEF PackAltered, CopyAltered, LedgerAltered, ProofAltered,
                  ManifestAltered, ChecksumAltered
    <3> QED
      BY <1>1, <1>3, <2>3, <3>1 DEF IInv, Exported, Newer
  <2>7. Ordered' /\ Calm' /\ CalmExportIsGreen' /\ IsFiles(dir)'
    BY <1>1, <1>3 DEF IInv, TypeOK, Ordered, Calm, CalmExportIsGreen, IsFiles, IsContent
  <2>8. TypeOK'
    BY <1>1, <2>5, <2>7 DEF IInv, TypeOK
  <2> QED
    BY <2>6, <2>7, <2>8 DEF IInv
<1> QED
  BY <1>2, <1>3, TamperIs

-----------------------------------------------------------------------------
(* The inductive invariant, and what follows from it.                      *)

LEMMA IInvInit == Init => IInv
<1> SUFFICES ASSUME Init PROVE IInv
  OBVIOUS
<1> USE DEF Init
<1>1. IsFiles(NoFiles) /\ \A f \in SessionFile : NoFiles[f] = Missing
  <2>1. IsContent(Missing)
    BY BoundsAssumption DEF IsContent, Missing, Content
  <2> QED
    BY <2>1 DEF IsFiles, NoFiles
<1>2. IsLedger(NoLedger) /\ IsProof(NoProof)
  BY DEF IsLedger, IsProof, NoLedger, NoProof
<1>3. IsManifest(NoManifest)
  BY DEF IsManifest, NoManifest
<1>4. IsPack
  BY <1>1, <1>2, <1>3 DEF IsPack, EmptyPack
<1>5. /\ exporter = [x \in {"at", "loaded", "replayed"} |-> exporter[x]]
      /\ exporter.at = "none"
  BY DEF NoExport
<1>6. TypeOK
  <2>1. runs \in 0 .. MaxRuns /\ exports \in Nat /\ tampers \in Nat
    BY BoundsAssumption
  <2>2. calm \in BOOLEAN /\ writer \in SessionFile \cup {"none"}
    OBVIOUS
  <2>3. IsFiles(dir) /\ exporter.at \in At
    BY <1>1, <1>5 DEF At
  <2> QED
    BY <1>4, <1>5, <2>1, <2>2, <2>3 DEF TypeOK
<1>7. Ordered
  BY <1>1 DEF Ordered, Missing, Content
<1>8. Exported /\ Newer /\ Calm /\ CalmExportIsGreen
  BY <1>5 DEF Exported, Newer, Calm, CalmExportIsGreen
<1> QED
  BY <1>6, <1>7, <1>8 DEF IInv

LEMMA IInvStep == IInv /\ [Next]_vars => IInv'
<1> SUFFICES ASSUME IInv, [Next]_vars PROVE IInv'
  OBVIOUS
<1>1. CASE UNCHANGED vars
  <2>1. UNCHANGED <<session, runs, writer, dir, pack, exporter, exports,
                    told, tampers, calm>>
    BY <1>1 DEF vars
  <2>2. IsPack' /\ Exported' /\ Newer' /\ Calm' /\ CalmExportIsGreen'
    BY <2>1, ExportStays, LogIsOf DEF IInv, TypeOK
  <2>3. TypeOK' /\ Ordered'
    BY <2>1, <2>2 DEF IInv, TypeOK, Ordered
  <2> QED
    BY <2>2, <2>3 DEF IInv
<1> QED
  BY <1>1, BeginRunStep, PersistStep, PersistDiesStep, ReadSteps, CopyFileStep,
     WriteLedgerStep, WriteProofStep, WriteManifestStep, WriteChecksumStep,
     TamperStep DEF Next, Export

LEMMA Invariance == Spec => []IInv
BY IInvInit, IInvStep, PTL DEF Spec

\* A session that was persisted to the end is what its directory loads; after
\* one that died, and without an alteration, the directory loads exactly when
\* its log and its spine are of one session.
THEOREM PersistLoads == Spec => []PersistedLoads
<1>1. IInv => PersistedLoads
  <2> SUFFICES ASSUME IInv, tampers = 0, runs > 0
               PROVE  PersistedLoads
    BY DEF PersistedLoads
  <2> DEFINE last == dir["log"].of
  <2>1. dir["meta"].of = runs => dir["spine"].of = runs /\ last = runs
    BY DEF IInv, Ordered
  <2>2. /\ dir["log"].whole /\ dir["log"].intact
        /\ dir["spine"].whole /\ dir["spine"].intact
    BY DEF IInv, Ordered, SessionFile
  <2>3. last # 0 /\ session[last].sealed /\ session[last].readable =>
          (Loads(dir) <=> dir["spine"].of = last)
    BY <2>2 DEF Loads, Restores, Binds
  <2> QED
    BY <2>1, <2>3 DEF PersistedLoads, VerifyCommand, ReplayCommand
<1> QED
  BY <1>1, Invariance, PTL

\* A pack that verifies is of one session: its copies are that session's files
\* as they were written, and its ledger, proof and manifest are of one export
\* of it, whatever was run into the directory meanwhile or exported before.
THEOREM GreenPacksProve == Spec => []GreenPackProves
<1>1. IInv => GreenPackProves
  <2> SUFFICES ASSUME IInv, PackVerifies
               PROVE  GreenPackProves
    BY DEF GreenPackProves, AuditVerifyCommand
  <2> DEFINE n == pack.manifest.pin
             log == pack.copies["log"]
             spine == pack.copies["spine"]
  <2>1. /\ Restores(log) /\ Restores(spine) /\ Binds(spine, log)
        /\ log.of = n /\ spine.of = n
        /\ pack.manifest.copies = pack.copies
        /\ pack.manifest.export # 0
        /\ pack.manifest.ledger = pack.ledger /\ pack.manifest.proof = pack.proof
    BY DEF PackVerifies, ManifestReads, SessionsMatch, Loads
  <2>2. IsContent(log) /\ IsContent(spine) /\ IsManifest(pack.manifest)
    BY DEF IInv, TypeOK, IsPack, IsFiles, SessionFile
  <2>3. /\ pack.ledger.export = pack.manifest.export /\ pack.ledger.pin = n
        /\ pack.manifest.outcome = session[pack.proof.of].outcome
        /\ n <= pack.proof.of /\ pack.proof.of <= n
    BY <2>1, <2>2 DEF IsManifest
  <2>6. n \in Nat /\ pack.proof.of \in Nat
    BY <2>1, <2>2 DEF IsContent, IInv, TypeOK, IsPack, IsManifest
  <2>7. pack.proof.of = n /\ pack.manifest.outcome = session[n].outcome
    BY <2>3, <2>6
  <2> HIDE DEF n, log, spine
  <2>4. n \in Run /\ session[n].sealed
    BY <2>1, <2>2, BoundsAssumption DEF IsContent, Restores, Binds, Run
  <2>5. log = Content(n) /\ spine = Content(n)
    BY <2>1, <2>2 DEF IsContent, Content, Restores, Binds
  <2> QED
    BY <2>1, <2>3, <2>4, <2>5, <2>7 DEF GreenPackProves, log, spine
<1> QED
  BY <1>1, Invariance, PTL

\* A verification of an export's own pack is green, if nothing was written into
\* the session directory or altered since the export loaded it.
THEOREM CalmExportsAreGreen == Spec => []CalmExportIsGreen
<1>1. IInv => CalmExportIsGreen
  BY DEF IInv
<1> QED
  BY <1>1, Invariance, PTL

\* Whatever is altered in a pack that verifies, it does not verify any more.
THEOREM AlteredPacksAreRed == Spec => AlteredPackIsRed
<1> DEFINE Red == AuditVerifyCommand = 0 /\ tampers' # tampers /\ pack' # pack =>
                    AuditVerifyCommand' = 1
<1>1. IInv /\ [Next]_vars => [Red]_vars
  <2> SUFFICES ASSUME IInv, Next, AuditVerifyCommand = 0, tampers' # tampers,
                      pack' # pack
               PROVE  AuditVerifyCommand' = 1
    OBVIOUS
  <2>1. Tamper
    BY DEF Next, Export, BeginRun, Persist, PersistDies, ExportStops, Begins,
           LoadForPack, ReplayForPack, CopyFile, WriteLedger, WriteProof,
           WriteManifest, WriteChecksum, ExportEnds, Unrelated
  <2>2. PackAltered
    BY <2>1, TamperIs
  <2>3. PackVerifies
    BY DEF AuditVerifyCommand
  <2>4. /\ pack.checksum = pack.manifest /\ pack.manifest.copies = pack.copies
        /\ pack.manifest.ledger = pack.ledger /\ pack.manifest.proof = pack.proof
    BY <2>3 DEF PackVerifies, ManifestReads
  <2>5. /\ pack = [x \in {"copies", "ledger", "proof", "manifest", "checksum"} |->
                     pack[x]]
    BY DEF IInv, TypeOK, IsPack
  <2>6. \/ pack.copies' # pack.copies \/ pack.ledger' # pack.ledger
        \/ pack.proof' # pack.proof \/ pack.manifest' # pack.manifest
        \/ pack.checksum' # pack.checksum
    BY <2>2, <2>5 DEF PackAltered
  <2>7. ~PackVerifies'
    BY <2>2, <2>4, <2>6
       DEF PackAltered, CopyAltered, LedgerAltered, ProofAltered,
           ManifestAltered, ChecksumAltered, PackVerifies, ManifestReads
  <2> QED
    BY <2>7 DEF AuditVerifyCommand
<1> QED
  BY <1>1, Invariance, PTL DEF Spec, AlteredPackIsRed
=============================================================================
