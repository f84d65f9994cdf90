------------------------------- MODULE Stores -------------------------------
(***************************************************************************)
(* Attachments are half in Postgres and half in object storage, and no     *)
(* transaction spans the two.  Here are the requests that write both, the  *)
(* backup that copies both while they go on, and the restore that puts     *)
(* both back, which the runbook runs inside a serving backend.             *)
(*                                                                         *)
(* A key is drawn for one upload and its bytes never change, so a key      *)
(* stands for row and object alike.                                        *)
(***************************************************************************)
EXTENDS Naturals, FiniteSets

CONSTANTS
    Files,      \* the keys that can be drawn
    Requests,   \* uploads and deletions that may be in flight
    Stamps,     \* the names of backup sets: times, in order
    Keep,       \* --keep
    Idle,       \* no request, no script running
    NoSet       \* no directory of that name

ASSUME StampsAreTimes == Stamps \subseteq Nat
ASSUME KeepIsNatural == Keep \in Nat
ASSUME NotARequest == Idle \notin [kind : {"upload", "delete"}, file : Files,
                                   step : {"open", "put", "committed"}]

\* open: the transaction has read; put: the object is stored.
Request == [kind : {"upload", "delete"}, file : Files, step : {"open", "put", "committed"}]

Parts == {"dump", "index", "manifest"}

\* objects are the keys in the index, gone those whose file pruning has removed.
\* lost is history: rows that had no object at the dump (a restore was not
\* finished), and keys whose object was removed while the backup ran.
BackupSet == [counted : Nat, dump : SUBSET Files, objects : SUBSET Files,
              gone : SUBSET Files, parts : SUBSET Parts, lost : SUBSET Files]

Backup == [stamp : Stamps, left : SUBSET Files, doomed : SUBSET Stamps,
           step : {"made", "counted", "dumped", "copying", "indexed", "pruning", "removing"}]

Restore == [stamp : Stamps, counted : Nat, left : SUBSET Files,
            step : {"database", "index", "objects", "counts", "heads"}]

ASSUME NoSetIsNone == NoSet \notin BackupSet
ASSUME RunningIsNotIdle == Idle \notin Backup

VARIABLES
    rows,       \* the attachments table
    objects,    \* the bucket
    drawn,      \* history: keys ever drawn
    req,        \* the API requests in flight
    sets,       \* the backup directories
    backup,     \* backup.py
    restore,    \* restore.py
    verified,   \* no restore has begun, or the last one has been verified
    bare,       \* history: rows a restore has brought back, not yet their objects
    overtaken   \* history: deletions whose row a restore has brought back

apiVars == <<rows, objects, drawn, req>>
scriptVars == <<sets, backup, restore, verified, bare, overtaken>>
vars == <<apiVars, scriptVars>>

Init ==
    /\ rows = {}
    /\ objects = {}
    /\ drawn = {}
    /\ req = [r \in Requests |-> Idle]
    /\ sets = [s \in Stamps |-> NoSet]
    /\ backup = Idle
    /\ restore = Idle
    /\ verified = TRUE
    /\ bare = {}
    /\ overtaken = {}

---------------------------------------------------------------------------
(* Uploading and removing an attachment.                                   *)

At(r, kind, step) == req[r] # Idle /\ req[r].kind = kind /\ req[r].step = step

\* upload_attachment: permission, comment and size are checked, the key drawn.
BeginUpload(r, f) ==
    /\ req[r] = Idle
    /\ f \notin drawn
    /\ drawn' = drawn \cup {f}
    /\ req' = [req EXCEPT ![r] = [kind |-> "upload", file |-> f, step |-> "open"]]
    /\ UNCHANGED <<rows, objects, scriptVars>>

\* StorageService.upload.
PutObject(r) ==
    /\ At(r, "upload", "open")
    /\ objects' = objects \cup {req[r].file}
    /\ req' = [req EXCEPT ![r].step = "put"]
    /\ UNCHANGED <<rows, drawn, scriptVars>>

\* The row is inserted and committed once the object is stored.
CommitUpload(r) ==
    /\ At(r, "upload", "put")
    /\ rows' = rows \cup {req[r].file}
    /\ req' = [req EXCEPT ![r] = Idle]
    /\ UNCHANGED <<objects, drawn, scriptVars>>

BeginDelete(r, f) ==
    /\ req[r] = Idle
    /\ f \in rows
    /\ req' = [req EXCEPT ![r] = [kind |-> "delete", file |-> f, step |-> "open"]]
    /\ UNCHANGED <<rows, objects, drawn, scriptVars>>

\* Mutant: the object goes first.
CommitDelete_ObjectFirst(r) ==
    /\ At(r, "delete", "open")
    /\ objects' = objects \ {req[r].file}
    /\ req' = [req EXCEPT ![r].step = "committed"]
    /\ UNCHANGED <<rows, drawn, scriptVars>>

\* delete_attachment commits the row's removal first.  Two of them may remove
\* the same row: the second finds nothing to delete, which is no error.
CommitDelete(r) ==
    /\ At(r, "delete", "open")
    /\ rows' = rows \ {req[r].file}
    /\ req' = [req EXCEPT ![r].step = "committed"]
    /\ UNCHANGED <<objects, drawn, scriptVars>>

\* Between the dump and the end of the backup.
Sweeping == backup # Idle /\ backup.step \in {"dumped", "copying", "indexed"}

\* StorageService.delete: a missing object is not an error.
DropObject(r) ==
    /\ At(r, "delete", "committed")
    /\ objects' = objects \ {req[r].file}
    /\ req' = [req EXCEPT ![r] = Idle]
    /\ sets' = IF Sweeping
               THEN [sets EXCEPT ![backup.stamp].lost = @ \cup {req[r].file}]
               ELSE sets
    /\ UNCHANGED <<rows, drawn, backup, restore, verified, bare, overtaken>>

\* The store is unreachable, the commit fails, or the process dies: whatever
\* one store has stays there.
CutOff(r) ==
    /\ req[r] # Idle
    /\ req' = [req EXCEPT ![r] = Idle]
    /\ UNCHANGED <<rows, objects, drawn, scriptVars>>

\* A put that failed for the client may have reached the store.
PutLost(r) ==
    /\ At(r, "upload", "open")
    /\ objects' = objects \cup {req[r].file}
    /\ req' = [req EXCEPT ![r] = Idle]
    /\ UNCHANGED <<rows, drawn, scriptVars>>

---------------------------------------------------------------------------
(* backup.py.                                                              *)

BackupAt(step) == backup # Idle /\ backup.step = step

Existing == {s \in Stamps : sets[s] # NoSet}

\* mkdir(exist_ok=False): the stamp is the time, later than any before.
MakeSet(s) ==
    /\ backup = Idle
    /\ \A t \in Existing : t < s
    /\ sets' = [sets EXCEPT ![s] = [counted |-> 0, dump |-> {}, objects |-> {},
                    gone |-> {}, parts |-> {}, lost |-> {}]]
    /\ backup' = [stamp |-> s, left |-> {}, doomed |-> {}, step |-> "made"]
    /\ UNCHANGED <<apiVars, restore, verified, bare, overtaken>>

CountRows ==
    /\ BackupAt("made")
    /\ sets' = [sets EXCEPT ![backup.stamp].counted = Cardinality(rows)]
    /\ backup' = [backup EXCEPT !.step = "counted"]
    /\ UNCHANGED <<apiVars, restore, verified, bare, overtaken>>

\* pg_dump reads one snapshot.
DumpDatabase ==
    /\ BackupAt("counted")
    /\ sets' = [sets EXCEPT ![backup.stamp].dump = rows,
                            ![backup.stamp].parts = @ \cup {"dump"},
                            ![backup.stamp].lost = rows \ objects]
    /\ backup' = [backup EXCEPT !.step = "dumped"]
    /\ UNCHANGED <<apiVars, restore, verified, bare, overtaken>>

\* copy_objects lists the bucket ...
ListObjects ==
    /\ BackupAt("dumped")
    /\ backup' = [backup EXCEPT !.step = "copying", !.left = objects]
    /\ UNCHANGED <<apiVars, sets, restore, verified, bare, overtaken>>

\* Mutant: a download that fails is skipped.
CopyObject_Skips(f) ==
    /\ BackupAt("copying") /\ f \in backup.left
    /\ \E copied \in {{}, {f} \cap objects} :
          sets' = [sets EXCEPT ![backup.stamp].objects = @ \cup copied]
    /\ backup' = [backup EXCEPT !.left = @ \ {f}]
    /\ UNCHANGED <<apiVars, restore, verified, bare, overtaken>>

\* ... and downloads what it has listed; one that is gone ends the backup.
CopyObject(f) ==
    /\ BackupAt("copying") /\ f \in backup.left
    /\ f \in objects
    /\ sets' = [sets EXCEPT ![backup.stamp].objects = @ \cup {f}]
    /\ backup' = [backup EXCEPT !.left = @ \ {f}]
    /\ UNCHANGED <<apiVars, restore, verified, bare, overtaken>>

WriteIndex ==
    /\ BackupAt("copying") /\ backup.left = {}
    /\ sets' = [sets EXCEPT ![backup.stamp].parts = @ \cup {"index"}]
    /\ backup' = [backup EXCEPT !.step = "indexed"]
    /\ UNCHANGED <<apiVars, restore, verified, bare, overtaken>>

WriteManifest ==
    /\ BackupAt("indexed")
    /\ sets' = [sets EXCEPT ![backup.stamp].parts = @ \cup {"manifest"}]
    /\ backup' = [backup EXCEPT !.step = "pruning"]
    /\ UNCHANGED <<apiVars, restore, verified, bare, overtaken>>

\* What prune and restore take for a backup set.
Complete(s) == sets[s] # NoSet /\ "manifest" \in sets[s].parts

Whole(s) == Complete(s) /\ sets[s].parts = Parts /\ sets[s].gone = {}

\* Mutant: every directory counts, also those a killed backup left.
Outdated_CountsPartials ==
    {s \in Existing : Cardinality({t \in Existing : t > s}) >= Keep}

\* All but the newest Keep sets that have a manifest.
Outdated == {s \in Stamps : /\ Complete(s)
                            /\ Cardinality({t \in Stamps : Complete(t) /\ t > s}) >= Keep}

\* prune lists the sets first; --keep 0 keeps all ...
ListOutdated ==
    /\ BackupAt("pruning")
    /\ backup' = [backup EXCEPT !.step = "removing",
                                !.doomed = IF Keep > 0 THEN Outdated ELSE {}]
    /\ UNCHANGED <<apiVars, sets, restore, verified, bare, overtaken>>

\* ... and removes one after the other, the newest first ...
Removing(s) ==
    /\ BackupAt("removing") /\ s \in backup.doomed /\ sets[s] # NoSet
    /\ \A t \in backup.doomed : t <= s
    /\ UNCHANGED <<apiVars, restore, verified, bare, overtaken>>

\* ... file by file (shutil.rmtree), in the order of the directory ...
RemovePart(s, p) ==
    /\ Removing(s) /\ p \in sets[s].parts
    /\ sets' = [sets EXCEPT ![s].parts = @ \ {p}]
    /\ UNCHANGED backup

RemoveFile(s, f) ==
    /\ Removing(s) /\ f \in sets[s].objects \ sets[s].gone
    /\ sets' = [sets EXCEPT ![s].gone = @ \cup {f}]
    /\ UNCHANGED backup

\* ... and the directory last.
RemoveSet(s) ==
    /\ Removing(s) /\ sets[s].parts = {} /\ sets[s].gone = sets[s].objects
    /\ sets' = [sets EXCEPT ![s] = NoSet]
    /\ backup' = [backup EXCEPT !.doomed = @ \ {s}]

BackupDone ==
    /\ BackupAt("removing") /\ backup.doomed = {}
    /\ backup' = Idle
    /\ UNCHANGED <<apiVars, sets, restore, verified, bare, overtaken>>

\* Any failure before the manifest removes the whole set.
BackupFails ==
    /\ backup # Idle /\ backup.step \in {"made", "counted", "dumped", "copying"}
    /\ sets' = [sets EXCEPT ![backup.stamp] = NoSet]
    /\ backup' = Idle
    /\ UNCHANGED <<apiVars, restore, verified, bare, overtaken>>

\* A killed backup leaves what it has written, or not removed yet.
BackupKilled ==
    /\ backup # Idle
    /\ backup' = Idle
    /\ UNCHANGED <<apiVars, sets, restore, verified, bare, overtaken>>

---------------------------------------------------------------------------
(* restore.py.                                                             *)

RestoreAt(step) == restore # Idle /\ restore.step = step

\* A set without manifest, dump or index is refused; the manifest is read.
BeginRestore(s) ==
    /\ restore = Idle
    /\ sets[s] # NoSet /\ sets[s].parts = Parts
    /\ restore' = [stamp |-> s, counted |-> sets[s].counted, left |-> {}, step |-> "database"]
    /\ UNCHANGED <<apiVars, sets, backup, verified, bare, overtaken>>

\* pg_restore --clean: dropping the tables waits for the transactions that have
\* read them.  A deletion past its commit holds none.
RestoreDatabase ==
    /\ RestoreAt("database")
    /\ sets[restore.stamp] # NoSet /\ "dump" \in sets[restore.stamp].parts
    /\ \A r \in Requests : req[r] # Idle => req[r].step = "committed"
    /\ rows' = sets[restore.stamp].dump
    /\ restore' = [restore EXCEPT !.step = "index"]
    /\ verified' = FALSE
    /\ bare' = sets[restore.stamp].dump \ objects
    /\ overtaken' = overtaken \cup {req[r].file : r \in {q \in Requests : req[q] # Idle}}
    /\ UNCHANGED <<objects, drawn, req, sets, backup>>

\* restore_objects reads the index ...
ReadIndex ==
    /\ RestoreAt("index")
    /\ sets[restore.stamp] # NoSet /\ "index" \in sets[restore.stamp].parts
    /\ restore' = [restore EXCEPT !.step = "objects", !.left = sets[restore.stamp].objects]
    /\ UNCHANGED <<apiVars, sets, backup, verified, bare, overtaken>>

\* ... and uploads the file of each key; one that is not there ends the restore.
RestoreObject(f) ==
    /\ RestoreAt("objects") /\ f \in restore.left
    /\ sets[restore.stamp] # NoSet /\ f \notin sets[restore.stamp].gone
    /\ objects' = objects \cup {f}
    /\ bare' = bare \ {f}
    /\ restore' = [restore EXCEPT !.left = @ \ {f}]
    /\ UNCHANGED <<rows, drawn, req, sets, backup, verified, overtaken>>

\* verify: the manifest's counts, read when the restore began.
CompareCounts ==
    /\ RestoreAt("objects") /\ restore.left = {}
    /\ Cardinality(rows) = restore.counted
    /\ restore' = [restore EXCEPT !.step = "counts"]
    /\ UNCHANGED <<apiVars, sets, backup, verified, bare, overtaken>>

\* Mutant: only the objects of the set are looked up.
SelectRows_OfSet ==
    /\ RestoreAt("counts")
    /\ sets[restore.stamp] # NoSet
    /\ restore' = [restore EXCEPT !.step = "heads", !.left = sets[restore.stamp].objects]
    /\ UNCHANGED <<apiVars, sets, backup, verified, bare, overtaken>>

\* ... and then every attachment row there is by now ...
SelectRows ==
    /\ RestoreAt("counts")
    /\ restore' = [restore EXCEPT !.step = "heads", !.left = rows]
    /\ UNCHANGED <<apiVars, sets, backup, verified, bare, overtaken>>

\* ... is looked up in the bucket.
HeadObject(f) ==
    /\ RestoreAt("heads") /\ f \in restore.left
    /\ f \in objects
    /\ restore' = [restore EXCEPT !.left = @ \ {f}]
    /\ UNCHANGED <<apiVars, sets, backup, verified, bare, overtaken>>

Verified ==
    /\ RestoreAt("heads") /\ restore.left = {}
    /\ restore' = Idle
    /\ verified' = TRUE
    /\ UNCHANGED <<apiVars, sets, backup, bare, overtaken>>

\* A problem is reported, something is missing, or the script is killed.
RestoreFails ==
    /\ restore # Idle
    /\ restore' = Idle
    /\ UNCHANGED <<apiVars, sets, backup, verified, bare, overtaken>>

---------------------------------------------------------------------------

Serve(r) ==
    \/ \E f \in Files : BeginUpload(r, f)
    \/ PutObject(r)
    \/ CommitUpload(r)
    \/ \E f \in Files : BeginDelete(r, f)
    \/ CommitDelete(r)
    \/ DropObject(r)
    \/ CutOff(r)
    \/ PutLost(r)

BackUp ==
    \/ \E s \in Stamps : MakeSet(s)
    \/ CountRows
    \/ DumpDatabase
    \/ ListObjects
    \/ \E f \in Files : CopyObject(f)
    \/ WriteIndex
    \/ WriteManifest
    \/ ListOutdated
    \/ \E s \in Stamps, p \in Parts : RemovePart(s, p)
    \/ \E s \in Stamps, f \in Files : RemoveFile(s, f)
    \/ \E s \in Stamps : RemoveSet(s)
    \/ BackupDone
    \/ BackupFails
    \/ BackupKilled

PutBack ==
    \/ \E s \in Stamps : BeginRestore(s)
    \/ RestoreDatabase
    \/ ReadIndex
    \/ \E f \in Files : RestoreObject(f)
    \/ CompareCounts
    \/ SelectRows
    \/ \E f \in Files : HeadObject(f)
    \/ Verified
    \/ RestoreFails

Next == (\E r \in Requests : Serve(r)) \/ BackUp \/ PutBack

Spec == Init /\ [][Next]_vars

---------------------------------------------------------------------------

TypeOK ==
    /\ rows \subseteq drawn
    /\ objects \subseteq drawn
    /\ drawn \subseteq Files
    /\ req \in [Requests -> Request \cup {Idle}]
    /\ sets \in [Stamps -> BackupSet \cup {NoSet}]
    /\ backup \in Backup \cup {Idle}
    /\ restore \in Restore \cup {Idle}
    /\ verified \in BOOLEAN
    /\ bare \subseteq Files
    /\ overtaken \subseteq Files

\* A committed attachment has its bytes, whatever is cut off between the two
\* stores (routes/tickets.py, upload_attachment and delete_attachment): an
\* object without a row may be left behind, a row without an object only by a
\* restore.
RowHasBytes == rows \ objects \subseteq bare \cup overtaken

\* When a restore has reported success every attachment has its bytes, although
\* requests are served all along (scripts/restore.py, verify), except where a
\* deletion had committed before the restore brought its row back.
VerifiedIsSound ==
    verified => rows \subseteq objects \cup overtaken

\* Keep newer sets have all their files.
Superseded(s) == Keep > 0 /\ Cardinality({t \in Stamps : t > s /\ Whole(t)}) >= Keep

\* A set with a manifest was written with the object of every row in its dump,
\* except of those whose object was removed while the backup ran
\* (scripts/backup.py: the dump first, objects second), and it still has all its
\* files unless Keep newer sets have theirs, wherever a pruning was killed.
BackupMissesOnlyDeleted ==
    \A s \in Stamps : Complete(s) =>
        /\ sets[s].dump \subseteq sets[s].objects \cup sets[s].lost
        /\ Whole(s) \/ Superseded(s)

\* A complete set is only ever touched when Keep newer complete ones remain,
\* whatever a failed or killed backup does (scripts/backup.py, prune).
CompleteSetsKept ==
    [][\A s \in Stamps : Whole(s) /\ ~Whole(s)' => Superseded(s)']_sets

=============================================================================
