---------------------------- MODULE SessionStore ----------------------------
(***************************************************************************)
(* A session directory and an audit pack made of it: persistSession,       *)
(* loadSession and replaySession (packages/engine/src/persist.ts,          *)
(* replay.ts), exportAuditPack and verifyAuditPack (packages/cli/src/      *)
(* audit-pack.ts), and the commands of the terminal around them (cli.ts).  *)
(*                                                                         *)
(* Commands are processes.  A step is one file replaced (atomicWrite makes *)
(* that atomic), copied or written, or one load; a process may die between *)
(* any two.  Sessions are run into the directory one after the other, an   *)
(* export runs beside them.  The sessions have one id, which is the case   *)
(* in which files of two of them are most alike; a chain's head is         *)
(* modelled by the number of its session: hashing is collision free.       *)
(***************************************************************************)
EXTENDS Naturals, FiniteSets

CONSTANTS
  Lengths,       \* how many events the sessions may have
  MaxRuns,       \* bound: the sessions run into the directory
  MaxExports,    \* bound: the exports into the pack directory
  MaxTampers     \* bound: the alterations of files

ASSUME BoundsAssumption ==
  MaxRuns \in Nat /\ MaxExports \in Nat /\ MaxTampers \in Nat

VARIABLES
  session,   \* what each run's session is
  runs,      \* sessions run so far
  writer,    \* what the running persist writes next, "none" when none runs
  dir,       \* the session directory
  pack,      \* the pack directory
  exporter,  \* the running export: its next step, and what it has read
  exports,   \* exports begun
  told,      \* what the last finished export reported
  tampers,   \* alterations so far
  calm       \* history: nothing has touched a file since the export's load

vars == <<session, runs, writer, dir, pack, exporter, exports, told,
          tampers, calm>>

-----------------------------------------------------------------------------
Run == 1 .. MaxRuns

\* A session is readable when it was run with the secret its readers are given.
Session == [outcome : {"completed", "failed"}, sealed : BOOLEAN,
            readable : BOOLEAN, events : Lengths]

\* A file holds what the session `of` wrote, whole or cut, intact or not.
Content(n) == [of |-> n, whole |-> TRUE, intact |-> TRUE]
Missing == Content(0)
Contents == [of : 0 .. MaxRuns, whole : BOOLEAN, intact : BOOLEAN]

SessionFile == {"log", "spine", "meta"}
NoFiles == [f \in SessionFile |-> Missing]

\* The files of a pack beside the copies: what the worker ledger pins, whose
\* timeline the replay proof has and how many events it counts, what the
\* manifest lists, and what its checksum was taken over.  `export` tells the
\* exports' timestamps apart.
NoLedger == [export |-> 0, pin |-> 0, intact |-> TRUE]
NoProof == [export |-> 0, of |-> 0, events |-> 0, intact |-> TRUE]
NoManifest == [export |-> 0, pin |-> 0, outcome |-> "failed",
               copies |-> NoFiles, ledger |-> NoLedger, proof |-> NoProof,
               intact |-> TRUE]
EmptyPack == [copies |-> NoFiles, ledger |-> NoLedger, proof |-> NoProof,
              manifest |-> NoManifest, checksum |-> NoManifest]

NoExport == [at |-> "none", loaded |-> 0, replayed |-> 0]

Init ==
  /\ session \in [Run -> Session]
  /\ runs = 0
  /\ writer = "none"
  /\ dir = NoFiles
  /\ pack = EmptyPack
  /\ exporter = NoExport
  /\ exports = 0
  /\ told = "none"
  /\ tampers = 0
  /\ calm = FALSE

-----------------------------------------------------------------------------
(* Loading.                                                                *)

\* verifyBinding: the log ends with a seal, which declares the log's length,
\* the anchor of the spine and its outcome; the spine's last transition
\* commits the head of the log.
Binds(spine, log) ==
  /\ session[log.of].sealed
  /\ log.whole
  /\ spine.whole
  /\ log.of = spine.of
  /\ session[log.of].outcome = session[spine.of].outcome

\* loadJsonl and EvidenceLog.restore: every hash and both chains are
\* re-derived, with the secret the readers are given.
Restores(file) ==
  /\ file.of # 0
  /\ file.intact
  /\ session[file.of].readable

\* loadSession, and replaySession, which only adds a rendering of the log.
Loads(files) ==
  /\ Restores(files["spine"])
  /\ Restores(files["log"])
  /\ Binds(files["spine"], files["log"])

\* reef verify <dir> and reef replay <dir>: the exit codes.
VerifyCommand == IF Loads(dir) THEN 0 ELSE 1
ReplayCommand == IF Loads(dir) THEN 0 ELSE 1

-----------------------------------------------------------------------------
(* reef run --out <dir>: the session is run, and then persisted.           *)

BeginRun ==
  /\ writer = "none"
  /\ runs < MaxRuns
  /\ runs' = runs + 1
  /\ writer' = "log"
  /\ UNCHANGED <<session, dir, pack, exporter, exports, told, tampers,
                 calm>>

\* Mutant: a spine that is there already is kept.
KeepSpine(f, old, new) == IF f = "spine" /\ old # Missing THEN old ELSE new

\* atomicWrite replaces the file.
Replaced(f, old, new) == new

\* The files are written in this order.
After(f) == [log |-> "spine", spine |-> "meta", meta |-> "none"][f]

Persist ==
  /\ writer # "none"
  /\ dir' = [dir EXCEPT ![writer] = Replaced(writer, @, Content(runs))]
  /\ writer' = After(writer)
  /\ calm' = FALSE
  /\ UNCHANGED <<session, runs, pack, exporter, exports, told, tampers>>

\* The process dies, or a write fails: the files after it keep what they had.
PersistDies ==
  /\ writer # "none"
  /\ writer' = "none"
  /\ UNCHANGED <<session, runs, dir, pack, exporter, exports, told,
                 tampers, calm>>

-----------------------------------------------------------------------------
(* reef audit-pack <dir> --out <pack>                                      *)

Unrelated == UNCHANGED <<session, runs, writer, dir, tampers>>

\* The export throws, and exits with 1; what it has written stays.
ExportStops ==
  /\ exporter.at # "none"
  /\ exporter' = NoExport
  /\ told' = "stopped"
  /\ Unrelated
  /\ UNCHANGED <<pack, exports, calm>>

Begins ==
  /\ exporter.at = "none"
  /\ exports < MaxExports
  /\ exports' = exports + 1
  /\ exporter' = [NoExport EXCEPT !.at = "load"]
  /\ told' = "none"
  /\ Unrelated
  /\ UNCHANGED <<pack, calm>>

\* loadForPack loads the session, and then loads it again to replay it.
LoadForPack ==
  /\ exporter.at = "load"
  /\ Loads(dir)
  /\ exporter' = [exporter EXCEPT !.at = "replay", !.loaded = dir["log"].of]
  /\ calm' = TRUE
  /\ Unrelated
  /\ UNCHANGED <<pack, exports, told>>

ReplayForPack ==
  /\ exporter.at = "replay"
  /\ Loads(dir)
  /\ exporter' = [exporter EXCEPT !.at = "log", !.replayed = dir["log"].of]
  /\ Unrelated
  /\ UNCHANGED <<pack, exports, told, calm>>

\* The files are copied one by one; each must be there.
CopyFile ==
  /\ exporter.at \in SessionFile
  /\ dir[exporter.at].of # 0
  /\ pack' = [pack EXCEPT !.copies[exporter.at] = dir[exporter.at]]
  /\ exporter' = [exporter EXCEPT
       !.at = IF @ = "meta" THEN "ledger" ELSE After(@)]
  /\ Unrelated
  /\ UNCHANGED <<exports, told, calm>>

\* buildLedger: an Orchestrator whose worker hands out the loaded session's
\* result, so that the ledger pins its heads.
WriteLedger ==
  /\ exporter.at = "ledger"
  /\ pack' = [pack EXCEPT !.ledger = [export |-> exports, intact |-> TRUE,
                                      pin |-> exporter.loaded]]
  /\ exporter' = [exporter EXCEPT !.at = "proof"]
  /\ Unrelated
  /\ UNCHANGED <<exports, told, calm>>

WriteProof ==
  /\ exporter.at = "proof"
  /\ pack' = [pack EXCEPT !.proof =
       [export |-> exports, of |-> exporter.replayed, intact |-> TRUE,
        events |-> session[exporter.replayed].events]]
  /\ exporter' = [exporter EXCEPT !.at = "manifest"]
  /\ Unrelated
  /\ UNCHANGED <<exports, told, calm>>

\* The artifacts are hashed as they are by now; the heads are those of the
\* load, the outcome is that of the replay.
WriteManifest ==
  /\ exporter.at = "manifest"
  /\ pack' = [pack EXCEPT !.manifest =
       [export |-> exports, pin |-> exporter.loaded, intact |-> TRUE,
        outcome |-> session[exporter.replayed].outcome, copies |-> pack.copies,
        ledger |-> pack.ledger, proof |-> pack.proof]]
  /\ exporter' = [exporter EXCEPT !.at = "checksum"]
  /\ Unrelated
  /\ UNCHANGED <<exports, told, calm>>

\* Mutant: a checksum that is there already is kept.
KeepChecksum ==
  /\ exporter.at = "checksum"
  /\ pack' = [pack EXCEPT !.checksum = IF @ = NoManifest THEN pack.manifest
                                      ELSE @]
  /\ exporter' = [exporter EXCEPT !.at = "verify"]
  /\ Unrelated
  /\ UNCHANGED <<exports, told, calm>>

WriteChecksum ==
  /\ exporter.at = "checksum"
  /\ pack' = [pack EXCEPT !.checksum = pack.manifest]
  /\ exporter' = [exporter EXCEPT !.at = "verify"]
  /\ Unrelated
  /\ UNCHANGED <<exports, told, calm>>

\* Mutant: the copies are trusted once their hashes are right.
ArtifactsOnly ==
  /\ pack.manifest.copies = pack.copies
  /\ Loads(pack.copies)

\* The copies load, and are the session the manifest pins, and replay to as
\* many events as the proof says.
SessionsMatch ==
  /\ Loads(pack.copies)
  /\ pack.copies["spine"].of = pack.manifest.pin
  /\ pack.copies["log"].of = pack.manifest.pin
  /\ session[pack.copies["log"].of].events = pack.proof.events

\* Mutant: the manifest's own checksum is not looked at.
NoChecksum == pack.manifest.export # 0

\* readManifest
ManifestReads ==
  /\ pack.manifest.export # 0
  /\ pack.checksum = pack.manifest

\* verifyAuditPack, offline and with the reader's secret.
PackVerifies ==
  /\ ManifestReads
  /\ pack.manifest.copies = pack.copies
  /\ pack.manifest.ledger = pack.ledger
  /\ pack.manifest.proof = pack.proof
  /\ pack.ledger.intact
  /\ SessionsMatch

\* The export ends with a verification of its own pack.
ExportEnds ==
  /\ exporter.at = "verify"
  /\ told' = IF PackVerifies THEN "green" ELSE "red"
  /\ exporter' = NoExport
  /\ Unrelated
  /\ UNCHANGED <<pack, exports, calm>>

\* reef audit-verify <pack>: the exit code.
AuditVerifyCommand == IF PackVerifies THEN 0 ELSE 1

Export ==
  \/ Begins \/ LoadForPack \/ ReplayForPack \/ CopyFile \/ WriteLedger
  \/ WriteProof \/ WriteManifest \/ WriteChecksum \/ ExportEnds
  \/ ExportStops

-----------------------------------------------------------------------------
(* Alterations: a byte of any file, or the end of a log.                   *)

Altered(content) ==
  IF content.of = 0 THEN {}
  ELSE {[content EXCEPT !.intact = FALSE], [content EXCEPT !.whole = FALSE]}

Tamper ==
  /\ tampers < MaxTampers
  /\ tampers' = tampers + 1
  /\ calm' = FALSE
  /\ \/ /\ \E f \in SessionFile : \E c \in Altered(dir[f]) :
             dir' = [dir EXCEPT ![f] = c]
        /\ UNCHANGED pack
     \/ /\ \/ \E f \in SessionFile : \E c \in Altered(pack.copies[f]) :
                pack' = [pack EXCEPT !.copies[f] = c]
           \/ pack.ledger # NoLedger
                /\ pack' = [pack EXCEPT !.ledger.intact = FALSE]
           \/ pack.proof # NoProof
                /\ pack' = [pack EXCEPT !.proof.intact = FALSE]
           \/ pack.manifest # NoManifest
                /\ pack' = [pack EXCEPT !.manifest.intact = FALSE]
           \/ pack.checksum # NoManifest
                /\ pack' = [pack EXCEPT !.checksum.intact = FALSE]
        /\ UNCHANGED dir
  /\ UNCHANGED <<session, runs, writer, exporter, exports, told>>

Next == BeginRun \/ Persist \/ PersistDies \/ Export \/ Tamper

Spec == Init /\ [][Next]_vars

-----------------------------------------------------------------------------
\* A persist that was not cut short is what the directory loads, and one
\* that died has either left the session before it, or one that is rejected:
\* without an alteration a load fails only on a torn write.
PersistedLoads ==
  tampers = 0 /\ writer = "none" /\ runs > 0 =>
    LET last == dir["log"].of IN
    /\ dir["meta"].of = runs => dir["spine"].of = runs /\ last = runs
    /\ last # 0 /\ session[last].sealed /\ session[last].readable =>
         /\ VerifyCommand = 0 <=> dir["spine"].of = last
         /\ ReplayCommand = VerifyCommand

\* A green pack proves one session: its copies of the log and the spine are
\* that session's unaltered files, the ledger pins it, the proof is of its
\* replay, of which only the number of events is compared, and the manifest
\* tells its outcome, although the session directory may have been written
\* over between any two steps of the export, and although the pack directory
\* may hold the remains of an earlier one.  Of session.json, and of the task
\* the manifest takes from it, nothing like that can be said.
GreenPackProves ==
  AuditVerifyCommand = 0 =>
    \E n \in Run :
      /\ session[n].sealed
      /\ pack.copies["log"] = Content(n)
      /\ pack.copies["spine"] = Content(n)
      /\ pack.ledger.pin = n
      /\ pack.ledger.export = pack.manifest.export
      /\ pack.proof.of = n
      /\ pack.manifest.outcome = session[n].outcome

\* "A one-byte change to any listed artifact or to the manifest checksum turns
\* verification red."
AlteredPackIsRed ==
  [][AuditVerifyCommand = 0 /\ tampers' # tampers /\ pack' # pack =>
       AuditVerifyCommand' = 1]_vars

\* An export that nothing disturbs, and that is not cut short, is green.
CalmExportIsGreen == calm /\ told # "none" => told # "red"
=============================================================================
