---------------------------- MODULE Stores_proofs ----------------------------
(***************************************************************************)
(* For any number of requests, keys and backups: a row is never without    *)
(* its bytes but by a restore, a verified restore is sound, and a complete *)
(* backup lacks only what was deleted while it ran, or what a pruning took *)
(* once newer backups had all their files.                                 *)
(*                                                                         *)
(* What carries the first is that a key belongs to one upload: until that  *)
(* upload commits, neither a row nor a dump nor another request knows it.  *)
(* That pruning keeps the newest sets rests on there being finitely many.  *)
(***************************************************************************)
EXTENDS Stores, FiniteSetTheorems, WellFoundedInduction, TLAPS

UnderWay(r) == req[r] # Idle

\* What a request in flight knows of its key.
RequestOK(r) ==
    UnderWay(r) =>
        /\ req[r].file \in drawn
        /\ req[r].kind = "upload" =>
              /\ req[r].step # "committed"
              /\ req[r].file \notin rows
              /\ \A s \in Stamps : sets[s] # NoSet => req[r].file \notin sets[s].dump
              /\ req[r].step = "put" => req[r].file \in objects
        /\ req[r].kind = "delete" /\ req[r].step = "committed" /\ req[r].file \in rows =>
              req[r].file \in overtaken

\* Nobody else has the key of an upload.
Apart ==
    \A r, q \in Requests :
        r # q /\ UnderWay(r) /\ UnderWay(q) /\ req[r].kind = "upload"
            => req[r].file # req[q].file

\* What the backup has written so far.
PartsAt(step) ==
    CASE step \in {"made", "counted"}    -> {}
      [] step \in {"dumped", "copying"}  -> {"dump"}
      [] step = "indexed"                -> {"dump", "index"}

\* The backup at work: its set is there and without a manifest yet, and what
\* was in the dump is copied, still to be copied, or lost.
BackupOK ==
    backup # Idle =>
        LET set == sets[backup.stamp] IN
        /\ backup.step \notin {"pruning", "removing"} =>
              set \in BackupSet /\ set.parts = PartsAt(backup.step) /\ set.gone = {}
        /\ backup.step # "removing" => backup.doomed = {}
        /\ backup.step = "dumped" => set.dump \subseteq objects \cup set.lost
        /\ backup.step = "copying" => set.dump \subseteq set.objects \cup backup.left \cup set.lost
        /\ backup.step = "indexed" => set.dump \subseteq set.objects \cup set.lost

\* The restore at work: what it has not looked up yet is all that may be missing.
RestoreOK ==
    restore # Idle =>
        /\ restore.step = "objects" => restore.left \subseteq drawn
        /\ restore.step = "heads" => rows \subseteq objects \cup overtaken \cup restore.left

\* Sets hold keys that were drawn, of which there are finitely many.
SetsOK ==
    /\ IsFiniteSet(drawn)
    /\ \A s \in Stamps : sets[s] # NoSet =>
          sets[s].dump \subseteq drawn /\ sets[s].objects \subseteq drawn

CopiesOK ==
    \A s \in Stamps : Complete(s) => sets[s].dump \subseteq sets[s].objects \cup sets[s].lost

IInv ==
    /\ TypeOK
    /\ \A r \in Requests : RequestOK(r)
    /\ Apart
    /\ SetsOK
    /\ BackupOK
    /\ RestoreOK
    /\ RowHasBytes
    /\ VerifiedIsSound
    /\ CopiesOK

---------------------------------------------------------------------------

LEMMA InitInvariant == Init => IInv
BY FS_EmptySet DEF Init, IInv, TypeOK, RequestOK, UnderWay, Apart, SetsOK, BackupOK, RestoreOK,
       RowHasBytes, VerifiedIsSound, CopiesOK, Complete

\* The steps of a request that leave the rows and the bucket alone, or add to
\* the bucket, keep the scripts' side.
LEMMA ScriptsKeep ==
    ASSUME IInv, UNCHANGED scriptVars, drawn \subseteq drawn', IsFiniteSet(drawn'),
           objects \subseteq objects',
           \A f \in rows' : f \in rows \/ f \in objects'
    PROVE  SetsOK' /\ BackupOK' /\ RestoreOK' /\ RowHasBytes' /\ VerifiedIsSound'
              /\ CopiesOK'
<1>1. SetsOK'
  BY DEF IInv, SetsOK, scriptVars
<1>2. BackupOK'
  BY DEF IInv, BackupOK, scriptVars
<1>3. RestoreOK'
  BY DEF IInv, RestoreOK, scriptVars
<1>4. RowHasBytes' /\ VerifiedIsSound'
  BY DEF IInv, RowHasBytes, VerifiedIsSound, scriptVars
<1>5. CopiesOK'
  BY DEF IInv, CopiesOK, Complete, scriptVars
<1> QED
  BY <1>1, <1>2, <1>3, <1>4, <1>5

LEMMA UploadKeeps ==
    ASSUME IInv, NEW r \in Requests,
           (\E f \in Files : BeginUpload(r, f)) \/ PutObject(r) \/ CommitUpload(r)
              \/ CutOff(r) \/ PutLost(r)
    PROVE  IInv'
<1>1. CASE \E f \in Files : BeginUpload(r, f)
  <2>1. PICK f \in Files : BeginUpload(r, f)
    BY <1>1
  <2>2. TypeOK'
    BY <2>1 DEF IInv, TypeOK, BeginUpload, Request, scriptVars
  <2>3. f \notin rows /\ \A s \in Stamps : sets[s] # NoSet => f \notin sets[s].dump
    BY <2>1 DEF IInv, TypeOK, SetsOK, BeginUpload
  <2>4. \A q \in Requests : q # r => req'[q] = req[q]
    BY <2>1 DEF IInv, TypeOK, BeginUpload
  <2>5. req'[r] = [kind |-> "upload", file |-> f, step |-> "open"]
    BY <2>1 DEF IInv, TypeOK, BeginUpload
  <2>6. ASSUME NEW q \in Requests PROVE RequestOK(q)'
    BY <2>1, <2>3, <2>4, <2>5 DEF IInv, RequestOK, UnderWay, BeginUpload, scriptVars
  <2>7. Apart'
    BY <2>1, <2>4, <2>5 DEF IInv, RequestOK, Apart, UnderWay, BeginUpload
  <2>8. SetsOK' /\ BackupOK' /\ RestoreOK' /\ RowHasBytes' /\ VerifiedIsSound'
           /\ CopiesOK'
    <3>1. IsFiniteSet(drawn) /\ drawn' = drawn \cup {f}
      BY <2>1 DEF IInv, SetsOK, BeginUpload
    <3>2. IsFiniteSet(drawn')
      BY <3>1, FS_AddElement
    <3> QED
      BY <2>1, <3>2, ScriptsKeep DEF BeginUpload
  <2> QED
    BY <2>2, <2>6, <2>7, <2>8 DEF IInv
<1>2. CASE PutObject(r)
  <2>1. /\ req[r] \in Request /\ req[r].kind = "upload" /\ req[r].step = "open" /\ UnderWay(r)
        /\ req' = [req EXCEPT ![r].step = "put"]
        /\ objects' = objects \cup {req[r].file}
        /\ UNCHANGED <<rows, drawn, scriptVars>>
    BY <1>2 DEF IInv, TypeOK, PutObject, At, UnderWay
  <2>2. req[r].file \in drawn /\ RequestOK(r)
    BY <2>1 DEF IInv, RequestOK
  <2>3. TypeOK'
    BY <2>1, <2>2 DEF IInv, TypeOK, Request, scriptVars
  <2>4. \A q \in Requests : q # r => req'[q] = req[q]
    BY <2>1 DEF IInv, TypeOK
  <2>5. req'[r] = [req[r] EXCEPT !.step = "put"]
    BY <2>1 DEF IInv, TypeOK
  <2>6. req'[r].kind = "upload" /\ req'[r].file = req[r].file /\ req'[r].step = "put"
    BY <2>1, <2>5 DEF Request
  <2>7. ASSUME NEW q \in Requests PROVE RequestOK(q)'
    BY <2>1, <2>2, <2>4, <2>6 DEF IInv, RequestOK, UnderWay, scriptVars
  <2>8. Apart'
    BY <2>1, <2>4, <2>6 DEF IInv, Apart, UnderWay
  <2>9. SetsOK' /\ BackupOK' /\ RestoreOK' /\ RowHasBytes' /\ VerifiedIsSound'
           /\ CopiesOK'
    BY <2>1, ScriptsKeep DEF IInv, SetsOK
  <2> QED
    BY <2>3, <2>7, <2>8, <2>9 DEF IInv
<1>3. CASE CommitUpload(r)
  <2>1. /\ req[r].kind = "upload" /\ req[r].step = "put" /\ UnderWay(r)
        /\ req' = [req EXCEPT ![r] = Idle]
        /\ rows' = rows \cup {req[r].file}
        /\ UNCHANGED <<objects, drawn, scriptVars>>
    BY <1>3 DEF CommitUpload, At, UnderWay
  <2>2. req[r].file \in drawn /\ req[r].file \in objects
    BY <2>1 DEF IInv, RequestOK
  <2>3. TypeOK'
    BY <2>1, <2>2 DEF IInv, TypeOK, scriptVars
  <2>4. \A q \in Requests : q # r => req'[q] = req[q]
    BY <2>1 DEF IInv, TypeOK
  <2>5. ~UnderWay(r)'
    BY <2>1 DEF IInv, TypeOK, UnderWay
  <2>6. ASSUME NEW q \in Requests PROVE RequestOK(q)'
    <3>1. CASE q = r
      BY <3>1, <2>5 DEF RequestOK
    <3>2. CASE q # r
      <4>1. UnderWay(q) => req[q].file # req[r].file
        BY <3>2, <2>1 DEF IInv, Apart
      <4> QED
        BY <3>2, <4>1, <2>1, <2>4 DEF IInv, RequestOK, UnderWay, scriptVars
    <3> QED
      BY <3>1, <3>2
  <2>7. Apart'
    BY <2>4, <2>5 DEF IInv, Apart, UnderWay
  <2>8. SetsOK' /\ BackupOK' /\ RestoreOK' /\ RowHasBytes' /\ VerifiedIsSound'
           /\ CopiesOK'
    BY <2>1, <2>2, ScriptsKeep DEF IInv, SetsOK
  <2> QED
    BY <2>3, <2>6, <2>7, <2>8 DEF IInv
<1>4. CASE CutOff(r) \/ PutLost(r)
  <2>1. /\ req' = [req EXCEPT ![r] = Idle]
        /\ objects \subseteq objects' /\ objects' \subseteq drawn
        /\ UNCHANGED <<rows, drawn, scriptVars>>
    BY <1>4 DEF IInv, TypeOK, RequestOK, CutOff, PutLost, At, UnderWay
  <2>2. TypeOK'
    BY <2>1 DEF IInv, TypeOK, scriptVars
  <2>3. (\A q \in Requests : q # r => req'[q] = req[q]) /\ ~UnderWay(r)'
    BY <2>1 DEF IInv, TypeOK, UnderWay
  <2>4. ASSUME NEW q \in Requests PROVE RequestOK(q)'
    BY <2>1, <2>3 DEF IInv, RequestOK, UnderWay, scriptVars
  <2>5. Apart'
    BY <2>3 DEF IInv, Apart, UnderWay
  <2>6. SetsOK' /\ BackupOK' /\ RestoreOK' /\ RowHasBytes' /\ VerifiedIsSound'
           /\ CopiesOK'
    BY <2>1, ScriptsKeep DEF IInv, SetsOK
  <2> QED
    BY <2>2, <2>4, <2>5, <2>6 DEF IInv
<1> QED
  BY <1>1, <1>2, <1>3, <1>4

LEMMA DeleteKeeps ==
    ASSUME IInv, NEW r \in Requests,
           (\E f \in Files : BeginDelete(r, f)) \/ CommitDelete(r) \/ DropObject(r)
    PROVE  IInv'
<1>1. CASE \E f \in Files : BeginDelete(r, f)
  <2>1. PICK f \in Files : BeginDelete(r, f)
    BY <1>1
  <2>2. TypeOK'
    BY <2>1 DEF IInv, TypeOK, BeginDelete, Request, scriptVars
  <2>3. /\ \A q \in Requests : q # r => req'[q] = req[q]
        /\ req'[r] = [kind |-> "delete", file |-> f, step |-> "open"]
    BY <2>1 DEF IInv, TypeOK, BeginDelete
  <2>4. ASSUME NEW q \in Requests PROVE RequestOK(q)'
    BY <2>1, <2>3 DEF IInv, TypeOK, RequestOK, UnderWay, BeginDelete, scriptVars
  <2>5. Apart'
    BY <2>1, <2>3 DEF IInv, RequestOK, Apart, UnderWay, BeginDelete
  <2>6. SetsOK' /\ BackupOK' /\ RestoreOK' /\ RowHasBytes' /\ VerifiedIsSound'
           /\ CopiesOK'
    BY <2>1, ScriptsKeep DEF IInv, SetsOK, BeginDelete
  <2> QED
    BY <2>2, <2>4, <2>5, <2>6 DEF IInv
<1>2. CASE CommitDelete(r)
  <2>1. /\ req[r] \in Request /\ req[r].kind = "delete" /\ UnderWay(r)
        /\ req' = [req EXCEPT ![r].step = "committed"]
        /\ rows' = rows \ {req[r].file}
        /\ UNCHANGED <<objects, drawn, scriptVars>>
    BY <1>2 DEF IInv, TypeOK, CommitDelete, At, UnderWay
  <2>2. TypeOK'
    BY <2>1 DEF IInv, TypeOK, Request, scriptVars
  <2>3. /\ \A q \in Requests : q # r => req'[q] = req[q]
        /\ req'[r].kind = "delete" /\ req'[r].file = req[r].file /\ req'[r].step = "committed"
    BY <2>1 DEF IInv, TypeOK, Request
  <2>4. ASSUME NEW q \in Requests PROVE RequestOK(q)'
    BY <2>1, <2>3 DEF IInv, RequestOK, UnderWay, scriptVars
  <2>5. Apart'
    BY <2>1, <2>3 DEF IInv, Apart, UnderWay
  <2>6. SetsOK' /\ BackupOK' /\ RestoreOK' /\ RowHasBytes' /\ VerifiedIsSound'
           /\ CopiesOK'
    BY <2>1, ScriptsKeep DEF IInv, SetsOK
  <2> QED
    BY <2>2, <2>4, <2>5, <2>6 DEF IInv
<1>3. CASE DropObject(r)
  <2> DEFINE f == req[r].file
  <2>1. /\ req[r] \in Request /\ req[r].kind = "delete" /\ req[r].step = "committed" /\ UnderWay(r)
        /\ req' = [req EXCEPT ![r] = Idle]
        /\ objects' = objects \ {f}
        /\ sets' = IF Sweeping THEN [sets EXCEPT ![backup.stamp].lost = @ \cup {f}] ELSE sets
        /\ UNCHANGED <<rows, drawn, backup, restore, verified, bare, overtaken>>
    BY <1>3 DEF IInv, TypeOK, DropObject, At, UnderWay
  <2>2. f \in rows => f \in overtaken
    BY <2>1 DEF IInv, RequestOK
  <2>3. /\ f \in Files
        /\ Sweeping => backup \in Backup /\ sets[backup.stamp] \in BackupSet
    BY <2>1 DEF IInv, TypeOK, Request, Sweeping, BackupOK
  <2>4. TypeOK'
    BY <2>1, <2>3 DEF IInv, TypeOK, Backup, BackupSet
  <2>5. \A s \in Stamps : sets'[s] # NoSet =>
           \/ sets'[s] = sets[s]
           \/ /\ backup # Idle /\ s = backup.stamp /\ backup.step # "pruning"
              /\ sets[s] \in BackupSet
              /\ sets'[s] = [sets[s] EXCEPT !.lost = @ \cup {f}]
    BY <2>1, <2>3 DEF IInv, TypeOK, Backup, Sweeping
  <2>6. \A q \in Requests : q # r => req'[q] = req[q]
    BY <2>1 DEF IInv, TypeOK
  <2>7. ~UnderWay(r)'
    BY <2>1 DEF IInv, TypeOK, UnderWay
  <2>8. ASSUME NEW q \in Requests PROVE RequestOK(q)'
    <3>1. CASE q = r
      BY <3>1, <2>7 DEF RequestOK
    <3>2. CASE q # r
      <4>1. UnderWay(q) /\ req[q].kind = "upload" => req[q].file # f
        BY <3>2, <2>1 DEF IInv, Apart
      <4>2. \A s \in Stamps : sets'[s] # NoSet =>
               sets[s] # NoSet /\ sets'[s].dump = sets[s].dump
        BY <2>5, NoSetIsNone DEF BackupSet
      <4> QED
        BY <3>2, <4>1, <4>2, <2>1, <2>6 DEF IInv, RequestOK, UnderWay
    <3> QED
      BY <3>1, <3>2
  <2>9. Apart'
    BY <2>6, <2>7 DEF IInv, Apart, UnderWay
  <2>10. SetsOK'
    BY <2>1, <2>5, NoSetIsNone DEF IInv, SetsOK, BackupSet
  <2>11. BackupOK'
    <3>1. CASE ~Sweeping
      BY <3>1, <2>1 DEF IInv, BackupOK, Sweeping
    <3>2. CASE Sweeping
      <4>1. /\ backup # Idle /\ backup' = backup /\ backup.step \in {"dumped", "copying", "indexed"}
            /\ sets'[backup.stamp] = [sets[backup.stamp] EXCEPT !.lost = @ \cup {f}]
        BY <3>2, <2>1, <2>3 DEF IInv, TypeOK, Sweeping, Backup
      <4> QED
        BY <4>1, <3>2, <2>1, <2>3 DEF IInv, BackupOK, BackupSet
    <3> QED
      BY <3>1, <3>2
  <2>12. RestoreOK' /\ RowHasBytes' /\ VerifiedIsSound'
    BY <2>1, <2>2 DEF IInv, RestoreOK, RowHasBytes, VerifiedIsSound
  <2>13. CopiesOK'
    BY <2>1, <2>5, NoSetIsNone DEF IInv, CopiesOK, Complete, BackupSet
  <2> QED
    BY <2>4, <2>8, <2>9, <2>10, <2>11, <2>12, <2>13 DEF IInv
<1> QED
  BY <1>1, <1>2, <1>3

\* A step of the backup keeps the rest when what is in its set was in the dump
\* before, or is a row now, and what it copies exists.
LEMMA OthersKeep ==
    ASSUME IInv, UNCHANGED <<apiVars, restore, verified, bare, overtaken>>,
           \A s \in Stamps : sets'[s] # NoSet =>
               /\ \A f \in sets'[s].dump : f \in rows \/ (sets[s] # NoSet /\ f \in sets[s].dump)
               /\ \A f \in sets'[s].objects : f \in objects \/ (sets[s] # NoSet /\ f \in sets[s].objects)
    PROVE  /\ (\A r \in Requests : RequestOK(r))' /\ Apart' /\ SetsOK'
           /\ RestoreOK' /\ RowHasBytes' /\ VerifiedIsSound'
<1>1. ASSUME NEW r \in Requests PROVE RequestOK(r)'
  BY DEF IInv, RequestOK, UnderWay, apiVars
<1>2. Apart' /\ RestoreOK' /\ RowHasBytes' /\ VerifiedIsSound'
  BY DEF IInv, Apart, UnderWay, RestoreOK, RowHasBytes, VerifiedIsSound, apiVars
<1>3. SetsOK'
  BY DEF IInv, TypeOK, SetsOK, apiVars
<1> QED
  BY <1>1, <1>2, <1>3

\* What a step of the running backup may do to its set and to its own state.
LEMMA AdvanceKeeps ==
    ASSUME IInv, UNCHANGED <<apiVars, restore, verified, bare, overtaken>>,
           backup # Idle, backup.step \notin {"pruning", "removing"},
           NEW set \in BackupSet, NEW step \in {"made", "counted", "dumped", "copying", "indexed", "pruning"},
           NEW left \in SUBSET Files,
           sets' = [sets EXCEPT ![backup.stamp] = set],
           backup' = [backup EXCEPT !.step = step, !.left = left],
           \A f \in set.dump : f \in rows \/ f \in sets[backup.stamp].dump,
           \A f \in set.objects : f \in objects \/ f \in sets[backup.stamp].objects,
           step # "pruning" => set.parts = PartsAt(step) /\ set.gone = {},
           step = "dumped" => set.dump \subseteq objects \cup set.lost,
           step = "copying" => set.dump \subseteq set.objects \cup left \cup set.lost,
           step \in {"indexed", "pruning"} => set.dump \subseteq set.objects \cup set.lost
    PROVE  IInv'
<1>1. backup \in Backup /\ sets[backup.stamp] \in BackupSet
  BY DEF IInv, TypeOK, BackupOK
<1>2. backup.stamp \in Stamps /\ backup' \in Backup /\ backup'.stamp = backup.stamp
        /\ backup'.step = step /\ backup'.left = left /\ backup'.doomed = backup.doomed
  BY <1>1 DEF Backup
<1>3. sets'[backup.stamp] = set /\ \A s \in Stamps : s # backup.stamp => sets'[s] = sets[s]
  BY <1>2 DEF IInv, TypeOK
<1>4. TypeOK'
  BY <1>2 DEF IInv, TypeOK, apiVars
<1>5. BackupOK'
  BY <1>2, <1>3 DEF IInv, BackupOK, apiVars
<1>6. CopiesOK'
  <2>1. step # "pruning" => "manifest" \notin set.parts
    BY DEF PartsAt
  <2> QED
    BY <1>2, <1>3, <2>1 DEF IInv, CopiesOK, Complete
<1>7. \A s \in Stamps : sets'[s] # NoSet =>
        /\ \A f \in sets'[s].dump : f \in rows \/ (sets[s] # NoSet /\ f \in sets[s].dump)
        /\ \A f \in sets'[s].objects : f \in objects \/ (sets[s] # NoSet /\ f \in sets[s].objects)
  BY <1>1, <1>2, <1>3, NoSetIsNone
<1> QED
  BY <1>4, <1>5, <1>6, <1>7, OthersKeep DEF IInv

\* Sets that go away or lose a file, and a backup that ends or prunes, disturb
\* nothing.
LEMMA EndKeeps ==
    ASSUME IInv, UNCHANGED <<apiVars, restore, verified, bare, overtaken>>,
           backup' = Idle \/ (backup' \in Backup /\ backup'.step = "removing"),
           sets' \in [Stamps -> BackupSet \cup {NoSet}],
           \A s \in Stamps :
              \/ sets'[s] = NoSet \/ sets'[s] = sets[s]
              \/ /\ sets[s] # NoSet /\ sets'[s].dump = sets[s].dump
                 /\ sets'[s].objects = sets[s].objects /\ sets'[s].lost = sets[s].lost
                 /\ sets'[s].parts \subseteq sets[s].parts
    PROVE  IInv'
<1>1. TypeOK' /\ BackupOK'
  BY DEF IInv, TypeOK, BackupOK, apiVars
<1>2. CopiesOK'
  BY DEF IInv, CopiesOK, Complete
<1> QED
  BY <1>1, <1>2, OthersKeep DEF IInv

LEMMA BackupKeeps == ASSUME IInv, BackUp PROVE IInv'
<1> DEFINE set == sets[backup.stamp]
<1>0. backup # Idle =>
         /\ backup \in Backup
         /\ backup.step \notin {"pruning", "removing"} => set \in BackupSet
  BY DEF IInv, TypeOK, BackupOK
<1>1. CASE \E s \in Stamps : MakeSet(s)
  <2> DEFINE new == [counted |-> 0, dump |-> {}, objects |-> {},
                     gone |-> {}, parts |-> {}, lost |-> {}]
  <2>1. PICK s \in Stamps : MakeSet(s)
    BY <1>1
  <2>2. /\ sets' = [sets EXCEPT ![s] = new]
        /\ backup' = [stamp |-> s, left |-> {}, doomed |-> {}, step |-> "made"]
        /\ UNCHANGED <<apiVars, restore, verified, bare, overtaken>>
    BY <2>1 DEF MakeSet
  <2>3. new \in BackupSet /\ backup' \in Backup
    BY <2>2 DEF BackupSet, Backup
  <2>4. sets'[s] = new /\ \A t \in Stamps : t # s => sets'[t] = sets[t]
    BY <2>2 DEF IInv, TypeOK
  <2>5. TypeOK'
    BY <2>2, <2>3 DEF IInv, TypeOK, apiVars
  <2>6. BackupOK'
    BY <2>2, <2>3, <2>4 DEF BackupOK, PartsAt
  <2>7. CopiesOK'
    BY <2>4 DEF IInv, CopiesOK, Complete
  <2>8. (\A r \in Requests : RequestOK(r))' /\ Apart' /\ SetsOK'
           /\ RestoreOK' /\ RowHasBytes' /\ VerifiedIsSound'
    BY <2>2, <2>4, OthersKeep
  <2> QED
    BY <2>5, <2>6, <2>7, <2>8 DEF IInv
<1>2. CASE CountRows
  <2> DEFINE new == [set EXCEPT !.counted = Cardinality(rows)]
  <2>1. Cardinality(rows) \in Nat
    BY FS_Subset, FS_CardinalityType DEF IInv, TypeOK, SetsOK
  <2>2. /\ backup \in Backup /\ set \in BackupSet /\ backup # Idle /\ backup.step = "made"
        /\ sets' = [sets EXCEPT ![backup.stamp] = new]
        /\ backup' = [backup EXCEPT !.step = "counted", !.left = backup.left]
        /\ UNCHANGED <<apiVars, restore, verified, bare, overtaken>>
    BY <1>2, <1>0 DEF CountRows, BackupAt, Backup
  <2>3. set.parts = PartsAt("counted") /\ set.gone = {}
    BY <2>2 DEF IInv, BackupOK, PartsAt
  <2>4. /\ new \in BackupSet /\ new.dump = set.dump /\ new.objects = set.objects
        /\ new.parts = PartsAt("counted") /\ new.gone = {} /\ backup.left \in SUBSET Files
    BY <2>1, <2>2, <2>3 DEF BackupSet, Backup
  <2> HIDE DEF new
  <2> QED
    BY <2>2, <2>4, AdvanceKeeps
<1>3. CASE DumpDatabase
  <2> DEFINE new == [set EXCEPT !.dump = rows, !.parts = @ \cup {"dump"}, !.lost = rows \ objects]
  <2>1. /\ backup \in Backup /\ set \in BackupSet /\ backup # Idle /\ backup.step = "counted"
        /\ sets' = [sets EXCEPT ![backup.stamp] = new]
        /\ backup' = [backup EXCEPT !.step = "dumped", !.left = backup.left]
        /\ UNCHANGED <<apiVars, restore, verified, bare, overtaken>>
    BY <1>3, <1>0 DEF DumpDatabase, BackupAt, Backup
  <2>2. set.parts = {} /\ set.gone = {} /\ rows \subseteq Files
    BY <2>1 DEF IInv, BackupOK, TypeOK, PartsAt
  <2>3. /\ new \in BackupSet /\ new.dump = rows /\ new.lost = rows \ objects
        /\ new.objects = set.objects /\ new.parts = {"dump"} /\ new.gone = {}
        /\ backup.left \in SUBSET Files
    BY <2>1, <2>2 DEF BackupSet, Backup, Parts
  <2>4. new.parts = PartsAt("dumped")
    BY <2>3 DEF PartsAt
  <2> HIDE DEF new
  <2> QED
    BY <2>1, <2>3, <2>4, AdvanceKeeps
<1>4. CASE ListObjects
  <2>1. /\ backup \in Backup /\ set \in BackupSet /\ backup # Idle /\ backup.step = "dumped"
        /\ sets' = [sets EXCEPT ![backup.stamp] = set]
        /\ backup' = [backup EXCEPT !.step = "copying", !.left = objects]
        /\ UNCHANGED <<apiVars, restore, verified, bare, overtaken>>
    BY <1>4, <1>0 DEF IInv, TypeOK, ListObjects, BackupAt, Backup
  <2>2. /\ set.parts = PartsAt("copying") /\ set.gone = {}
        /\ set.dump \subseteq objects \cup set.lost /\ objects \in SUBSET Files
    BY <2>1 DEF IInv, BackupOK, TypeOK, PartsAt
  <2> HIDE DEF set
  <2> QED
    BY <2>1, <2>2, AdvanceKeeps DEF set
<1>5. CASE \E f \in Files : CopyObject(f)
  <2>1. PICK f \in Files : CopyObject(f)
    BY <1>5
  <2> DEFINE new == [set EXCEPT !.objects = @ \cup {f}]
  <2> DEFINE left == backup.left \ {f}
  <2>2. /\ backup \in Backup /\ set \in BackupSet /\ backup # Idle /\ backup.step = "copying"
        /\ f \in objects
        /\ sets' = [sets EXCEPT ![backup.stamp] = new]
        /\ backup' = [backup EXCEPT !.step = "copying", !.left = left]
        /\ UNCHANGED <<apiVars, restore, verified, bare, overtaken>>
    BY <2>1, <1>0 DEF CopyObject, BackupAt, Backup
  <2>3. /\ set.parts = PartsAt("copying") /\ set.gone = {}
        /\ set.dump \subseteq set.objects \cup backup.left \cup set.lost
    BY <2>2 DEF IInv, BackupOK
  <2>4. /\ new \in BackupSet /\ new.dump = set.dump /\ new.objects = set.objects \cup {f}
        /\ new.parts = PartsAt("copying") /\ new.gone = {} /\ left \in SUBSET Files
        /\ new.dump \subseteq new.objects \cup left \cup new.lost
    BY <2>2, <2>3 DEF BackupSet, Backup
  <2>5. /\ \A x \in new.dump : x \in rows \/ x \in set.dump
        /\ \A x \in new.objects : x \in objects \/ x \in set.objects
    BY <2>2, <2>4
  <2>6. backup.step \notin {"pruning", "removing"}
    BY <2>2
  <2> HIDE DEF new, left
  <2> QED
    BY <2>2, <2>4, <2>5, <2>6, AdvanceKeeps
<1>6. CASE WriteIndex
  <2> DEFINE new == [set EXCEPT !.parts = @ \cup {"index"}]
  <2>1. /\ backup \in Backup /\ set \in BackupSet /\ backup # Idle /\ backup.step = "copying"
        /\ backup.left = {}
        /\ sets' = [sets EXCEPT ![backup.stamp] = new]
        /\ backup' = [backup EXCEPT !.step = "indexed", !.left = {}]
        /\ UNCHANGED <<apiVars, restore, verified, bare, overtaken>>
    BY <1>6, <1>0 DEF WriteIndex, BackupAt, Backup
  <2>2. set.parts = {"dump"} /\ set.gone = {} /\ set.dump \subseteq set.objects \cup set.lost
    BY <2>1 DEF IInv, BackupOK, PartsAt
  <2>3. /\ new \in BackupSet /\ new.dump = set.dump /\ new.objects = set.objects
        /\ new.parts = {"dump", "index"} /\ new.gone = {} /\ {} \in SUBSET Files
        /\ new.dump \subseteq new.objects \cup new.lost
    BY <2>1, <2>2 DEF BackupSet, Backup, Parts
  <2>4. new.parts = PartsAt("indexed")
    BY <2>3 DEF PartsAt
  <2> HIDE DEF new
  <2> QED
    BY <2>1, <2>3, <2>4, AdvanceKeeps
<1>7. CASE WriteManifest
  <2> DEFINE new == [set EXCEPT !.parts = @ \cup {"manifest"}]
  <2>1. /\ backup \in Backup /\ set \in BackupSet /\ backup # Idle /\ backup.step = "indexed"
        /\ sets' = [sets EXCEPT ![backup.stamp] = new]
        /\ backup' = [backup EXCEPT !.step = "pruning", !.left = backup.left]
        /\ UNCHANGED <<apiVars, restore, verified, bare, overtaken>>
    BY <1>7, <1>0 DEF WriteManifest, BackupAt, Backup
  <2>2. set.dump \subseteq set.objects \cup set.lost
    BY <2>1 DEF IInv, BackupOK
  <2>3. /\ new \in BackupSet /\ new.dump = set.dump /\ new.objects = set.objects
        /\ backup.left \in SUBSET Files
        /\ new.dump \subseteq new.objects \cup new.lost
    BY <2>1, <2>2 DEF BackupSet, Backup, Parts
  <2> HIDE DEF new
  <2> QED
    BY <2>1, <2>3, AdvanceKeeps
<1>8. CASE ListOutdated
  <2>1. /\ backup # Idle /\ sets' = sets /\ Outdated \subseteq Stamps
        /\ backup' = [backup EXCEPT !.step = "removing",
                                    !.doomed = IF Keep > 0 THEN Outdated ELSE {}]
        /\ UNCHANGED <<apiVars, restore, verified, bare, overtaken>>
    BY <1>8 DEF ListOutdated, BackupAt, Outdated
  <2>2. backup' \in Backup /\ backup'.step = "removing"
    BY <1>0, <2>1 DEF Backup
  <2> QED
    BY <2>1, <2>2, EndKeeps DEF IInv, TypeOK
<1>9. ASSUME NEW s \in Stamps, RemoveSet(s)
      PROVE  IInv'
  <2>1. backup' \in Backup /\ backup'.step = "removing"
    BY <1>0, <1>9 DEF RemoveSet, Removing, BackupAt, Backup
  <2> QED
    BY <1>9, <2>1, EndKeeps DEF RemoveSet, Removing, IInv, TypeOK
<1>10. ASSUME NEW s \in Stamps, (\E p \in Parts : RemovePart(s, p)) \/ (\E f \in Files : RemoveFile(s, f))
       PROVE  IInv'
  <2>1. /\ backup' \in Backup /\ backup'.step = "removing" /\ sets[s] \in BackupSet
        /\ UNCHANGED <<apiVars, restore, verified, bare, overtaken>>
    BY <1>0, <1>10 DEF RemovePart, RemoveFile, Removing, BackupAt, IInv, TypeOK
  <2>2. PICK x \in BackupSet : /\ sets' = [sets EXCEPT ![s] = x]
                               /\ x.dump = sets[s].dump /\ x.objects = sets[s].objects
                               /\ x.lost = sets[s].lost /\ x.parts \subseteq sets[s].parts
    <3>1. ASSUME NEW p \in Parts, RemovePart(s, p)
          PROVE  \E x \in BackupSet : /\ sets' = [sets EXCEPT ![s] = x]
                                       /\ x.dump = sets[s].dump /\ x.objects = sets[s].objects
                                       /\ x.lost = sets[s].lost /\ x.parts \subseteq sets[s].parts
      <4> DEFINE x == [sets[s] EXCEPT !.parts = @ \ {p}]
      <4>1. /\ x \in BackupSet /\ x.dump = sets[s].dump /\ x.objects = sets[s].objects
            /\ x.lost = sets[s].lost /\ x.parts \subseteq sets[s].parts
        BY <2>1 DEF BackupSet
      <4>2. sets' = [sets EXCEPT ![s] = x]
        BY <3>1 DEF RemovePart
      <4> QED
        BY <4>1, <4>2
    <3>2. ASSUME NEW f \in Files, RemoveFile(s, f)
          PROVE  \E x \in BackupSet : /\ sets' = [sets EXCEPT ![s] = x]
                                       /\ x.dump = sets[s].dump /\ x.objects = sets[s].objects
                                       /\ x.lost = sets[s].lost /\ x.parts \subseteq sets[s].parts
      <4> DEFINE x == [sets[s] EXCEPT !.gone = @ \cup {f}]
      <4>1. /\ x \in BackupSet /\ x.dump = sets[s].dump /\ x.objects = sets[s].objects
            /\ x.lost = sets[s].lost /\ x.parts \subseteq sets[s].parts
        BY <2>1 DEF BackupSet
      <4>2. sets' = [sets EXCEPT ![s] = x]
        BY <3>2 DEF RemoveFile
      <4> QED
        BY <4>1, <4>2
    <3> QED
      BY <1>10, <3>1, <3>2
  <2>3. /\ sets' \in [Stamps -> BackupSet \cup {NoSet}] /\ sets'[s] = x
        /\ \A t \in Stamps : t # s => sets'[t] = sets[t]
    BY <2>2 DEF IInv, TypeOK
  <2> QED
    BY <2>1, <2>2, <2>3, NoSetIsNone, EndKeeps
<1>11. CASE BackupFails
  BY <1>11, <1>0, EndKeeps DEF IInv, TypeOK, BackupFails, Backup
<1>12. CASE BackupKilled \/ BackupDone
  BY <1>12, EndKeeps DEF IInv, TypeOK, BackupKilled, BackupDone
<1> QED
  BY <1>1, <1>2, <1>3, <1>4, <1>5, <1>6, <1>7, <1>8, <1>9, <1>10, <1>11, <1>12 DEF BackUp

\* A step of the restore that only moves the restore on.
LEMMA RestoreMovesOn ==
    ASSUME IInv, UNCHANGED <<apiVars, sets, backup, bare, overtaken>>,
           restore' \in Restore \cup {Idle}, verified' \in BOOLEAN,
           RestoreOK', VerifiedIsSound'
    PROVE  IInv'
<1>1. TypeOK' /\ SetsOK' /\ BackupOK' /\ CopiesOK' /\ RowHasBytes'
  BY DEF IInv, TypeOK, SetsOK, BackupOK, CopiesOK, Complete, RowHasBytes, apiVars
<1>2. (\A r \in Requests : RequestOK(r))' /\ Apart'
  BY DEF IInv, RequestOK, Apart, UnderWay, apiVars
<1> QED
  BY <1>1, <1>2 DEF IInv

LEMMA RestoreKeeps == ASSUME IInv, PutBack PROVE IInv'
<1>0. restore # Idle => restore \in Restore
  BY DEF IInv, TypeOK
<1>1. CASE \E s \in Stamps : BeginRestore(s)
  <2>1. PICK s \in Stamps : BeginRestore(s)
    BY <1>1
  <2>2. /\ restore' = [stamp |-> s, counted |-> sets[s].counted, left |-> {}, step |-> "database"]
        /\ sets[s].counted \in Nat
        /\ UNCHANGED <<apiVars, sets, backup, verified, bare, overtaken>>
    BY <2>1 DEF BeginRestore, IInv, TypeOK, BackupSet
  <2>3. restore' \in Restore /\ RestoreOK' /\ VerifiedIsSound' /\ verified' \in BOOLEAN
    BY <2>2 DEF IInv, TypeOK, Restore, RestoreOK, VerifiedIsSound, apiVars
  <2> QED
    BY <2>2, <2>3, RestoreMovesOn
<1>2. CASE RestoreDatabase
  <2> DEFINE set == sets[restore.stamp]
  <2>1. /\ restore \in Restore /\ set \in BackupSet
        /\ set.dump \subseteq drawn /\ set.objects \subseteq drawn
        /\ \A r \in Requests : UnderWay(r) => req[r].step = "committed"
        /\ rows' = set.dump /\ verified' = FALSE /\ bare' = set.dump \ objects
        /\ restore' = [restore EXCEPT !.step = "index"]
        /\ overtaken' = overtaken \cup {req[r].file : r \in {q \in Requests : req[q] # Idle}}
        /\ UNCHANGED <<objects, drawn, req, sets, backup>>
    BY <1>2, <1>0 DEF IInv, TypeOK, SetsOK, RestoreDatabase, RestoreAt, Restore, UnderWay
  <2>2. TypeOK'
    <3>1. \A r \in Requests : UnderWay(r) => req[r].file \in Files
      BY DEF IInv, TypeOK, UnderWay, Request
    <3>2. overtaken' \subseteq Files
      BY <2>1, <3>1 DEF IInv, TypeOK, UnderWay
    <3>3. restore' \in Restore
      BY <2>1 DEF Restore, BackupSet
    <3> QED
      BY <2>1, <3>2, <3>3 DEF IInv, TypeOK, BackupSet
  <2>3. ASSUME NEW r \in Requests PROVE RequestOK(r)'
    <3>1. UnderWay(r) => req[r].kind # "upload" /\ req[r].file \in overtaken'
      BY <2>1 DEF IInv, RequestOK, UnderWay
    <3> QED
      BY <2>1, <3>1 DEF IInv, RequestOK, UnderWay
  <2>4. Apart'
    BY <2>1 DEF IInv, Apart, UnderWay
  <2>5. SetsOK' /\ BackupOK' /\ CopiesOK'
    BY <2>1 DEF IInv, SetsOK, BackupOK, CopiesOK, Complete
  <2>6. RestoreOK'
    BY <2>1 DEF RestoreOK, Restore
  <2>7. RowHasBytes' /\ VerifiedIsSound'
    BY <2>1 DEF RowHasBytes, VerifiedIsSound
  <2> QED
    BY <2>2, <2>3, <2>4, <2>5, <2>6, <2>7 DEF IInv
<1>3. CASE \E f \in Files : RestoreObject(f)
  <2>1. PICK f \in Files : RestoreObject(f)
    BY <1>3
  <2>2. /\ restore \in Restore /\ restore # Idle /\ restore.step = "objects" /\ f \in drawn
        /\ objects' = objects \cup {f} /\ bare' = bare \ {f}
        /\ restore' = [restore EXCEPT !.left = @ \ {f}]
        /\ UNCHANGED <<rows, drawn, req, sets, backup, verified, overtaken>>
    BY <2>1, <1>0 DEF IInv, RestoreOK, RestoreObject, RestoreAt
  <2>3. TypeOK'
    BY <2>2 DEF IInv, TypeOK, Restore
  <2>4. ASSUME NEW r \in Requests PROVE RequestOK(r)'
    BY <2>2 DEF IInv, RequestOK, UnderWay
  <2>5. Apart'
    BY <2>2 DEF IInv, Apart, UnderWay
  <2>6. SetsOK' /\ BackupOK' /\ CopiesOK'
    BY <2>2 DEF IInv, SetsOK, BackupOK, CopiesOK, Complete
  <2>7. RestoreOK'
    <3>1. restore'.step = "objects" /\ restore'.left \subseteq restore.left
      BY <2>2 DEF Restore
    <3> QED
      BY <3>1, <2>2 DEF IInv, RestoreOK
  <2>8. RowHasBytes' /\ VerifiedIsSound'
    BY <2>2 DEF IInv, RowHasBytes, VerifiedIsSound
  <2> QED
    BY <2>3, <2>4, <2>5, <2>6, <2>7, <2>8 DEF IInv
<1>4. CASE ReadIndex
  <2> DEFINE set == sets[restore.stamp]
  <2>1. /\ restore \in Restore /\ set.objects \subseteq drawn /\ set.objects \subseteq Files
        /\ restore' = [restore EXCEPT !.step = "objects", !.left = set.objects]
        /\ UNCHANGED <<apiVars, sets, backup, verified, bare, overtaken>>
    BY <1>4, <1>0 DEF IInv, TypeOK, SetsOK, ReadIndex, RestoreAt, Restore, BackupSet
  <2> HIDE DEF set
  <2>2. restore' \in Restore /\ restore'.step = "objects" /\ restore'.left = set.objects
    BY <2>1 DEF Restore
  <2>3. RestoreOK' /\ VerifiedIsSound' /\ verified' \in BOOLEAN
    BY <2>1, <2>2 DEF IInv, TypeOK, RestoreOK, VerifiedIsSound, apiVars
  <2> QED
    BY <2>1, <2>2, <2>3, RestoreMovesOn
<1>5. CASE CompareCounts
  <2>1. /\ restore \in Restore /\ restore' = [restore EXCEPT !.step = "counts"]
        /\ UNCHANGED <<apiVars, sets, backup, verified, bare, overtaken>>
    BY <1>5, <1>0 DEF CompareCounts, RestoreAt
  <2>2. restore' \in Restore /\ RestoreOK' /\ VerifiedIsSound' /\ verified' \in BOOLEAN
    BY <2>1 DEF IInv, TypeOK, Restore, RestoreOK, VerifiedIsSound, apiVars
  <2> QED
    BY <2>1, <2>2, RestoreMovesOn
<1>6. CASE SelectRows
  <2>1. /\ restore \in Restore /\ restore' = [restore EXCEPT !.step = "heads", !.left = rows]
        /\ UNCHANGED <<apiVars, sets, backup, verified, bare, overtaken>>
    BY <1>6, <1>0 DEF SelectRows, RestoreAt
  <2>2. restore' \in Restore /\ RestoreOK' /\ VerifiedIsSound' /\ verified' \in BOOLEAN
    BY <2>1 DEF IInv, TypeOK, Restore, RestoreOK, VerifiedIsSound, apiVars
  <2> QED
    BY <2>1, <2>2, RestoreMovesOn
<1>7. CASE \E f \in Files : HeadObject(f)
  <2>1. PICK f \in Files : HeadObject(f)
    BY <1>7
  <2>2. /\ restore \in Restore /\ restore # Idle /\ restore.step = "heads" /\ f \in objects
        /\ restore' = [restore EXCEPT !.left = @ \ {f}]
        /\ UNCHANGED <<apiVars, sets, backup, verified, bare, overtaken>>
    BY <2>1, <1>0 DEF HeadObject, RestoreAt
  <2>3. restore' \in Restore /\ RestoreOK' /\ VerifiedIsSound' /\ verified' \in BOOLEAN
    BY <2>2 DEF IInv, TypeOK, Restore, RestoreOK, VerifiedIsSound, apiVars
  <2> QED
    BY <2>2, <2>3, RestoreMovesOn
<1>8. CASE Verified
  <2>1. rows \subseteq objects \cup overtaken
    BY <1>8 DEF IInv, RestoreOK, Verified, RestoreAt
  <2>2. restore' = Idle /\ UNCHANGED <<apiVars, sets, backup, bare, overtaken>> /\ verified' = TRUE
    BY <1>8 DEF Verified
  <2>3. RestoreOK' /\ VerifiedIsSound' /\ restore' \in Restore \cup {Idle} /\ verified' \in BOOLEAN
    BY <2>1, <2>2 DEF RestoreOK, VerifiedIsSound, apiVars
  <2> QED
    BY <2>2, <2>3, RestoreMovesOn
<1>9. CASE RestoreFails
  <2>1. restore' = Idle /\ UNCHANGED <<apiVars, sets, backup, verified, bare, overtaken>>
    BY <1>9 DEF RestoreFails
  <2>2. RestoreOK' /\ VerifiedIsSound' /\ restore' \in Restore \cup {Idle} /\ verified' \in BOOLEAN
    BY <2>1 DEF IInv, TypeOK, RestoreOK, VerifiedIsSound, apiVars
  <2> QED
    BY <2>1, <2>2, RestoreMovesOn
<1> QED
  BY <1>1, <1>2, <1>3, <1>4, <1>5, <1>6, <1>7, <1>8, <1>9 DEF PutBack

LEMMA StepInvariant == IInv /\ [Next]_vars => IInv'
<1> SUFFICES ASSUME IInv, [Next]_vars PROVE IInv'
  OBVIOUS
<1>1. ASSUME NEW r \in Requests, Serve(r) PROVE IInv'
  BY <1>1, UploadKeeps, DeleteKeeps DEF Serve
<1>2. CASE BackUp
  BY <1>2, BackupKeeps
<1>3. CASE PutBack
  BY <1>3, RestoreKeeps
<1>4. CASE UNCHANGED vars
  <2>1. UNCHANGED <<apiVars, sets, backup, verified, bare, overtaken, restore>>
    BY <1>4 DEF vars, scriptVars
  <2>2. restore' \in Restore \cup {Idle} /\ verified' \in BOOLEAN /\ RestoreOK' /\ VerifiedIsSound'
    BY <2>1 DEF IInv, TypeOK, RestoreOK, VerifiedIsSound, apiVars
  <2> QED
    BY <2>1, <2>2, RestoreMovesOn
<1> QED
  BY <1>1, <1>2, <1>3, <1>4 DEF Next

---------------------------------------------------------------------------

\* The rows, the bucket, the sets and the scripts satisfy the inductive
\* invariant whatever requests, backups and restores do (routes/tickets.py,
\* scripts/backup.py, scripts/restore.py).
THEOREM InvariantHolds == Spec => []IInv
BY InitInvariant, StepInvariant, PTL DEF Spec

\* Rows, objects and sets keep their shape: no row or object of a key that was
\* never drawn.
THEOREM TypeCorrect == Spec => []TypeOK
<1>1. IInv => TypeOK
  BY DEF IInv
<1> QED
  BY <1>1, InvariantHolds, PTL

\* For any number of uploads, deletions, backups and restores, cut off
\* anywhere, an attachment has its bytes unless a restore took them.
THEOREM RowsHaveBytes == Spec => []RowHasBytes
<1>1. IInv => RowHasBytes
  BY DEF IInv
<1> QED
  BY <1>1, InvariantHolds, PTL

\* A restore that reports success has put every attachment back, although
\* requests were served while it ran.
THEOREM VerifiedRestoreIsSound == Spec => []VerifiedIsSound
<1>1. IInv => VerifiedIsSound
  BY DEF IInv
<1> QED
  BY <1>1, InvariantHolds, PTL

---------------------------------------------------------------------------
(* What is pruned.                                                         *)

FewSets == IsFiniteSet(Existing)

\* The sets that pruning is about to remove.
Doomed == IF backup = Idle THEN {} ELSE backup.doomed

\* A manifest that outlives a part of its set.
Broken(s) == Complete(s) /\ ~Whole(s)

\* Newer sets that have all their files and are not being removed.
Standing(s) == {t \in Stamps : t > s /\ Whole(t) /\ t \notin Doomed}

PruneOK ==
    \A s \in Stamps : s \in Doomed \/ Broken(s) =>
        Keep > 0 /\ Cardinality(Standing(s)) >= Keep

\* What every step but the listing of the sets to remove does to the sets.
Kept ==
    /\ \E x : Existing' \subseteq Existing \cup {x}
    /\ Doomed' \subseteq Doomed
    /\ \A t \in Stamps \ Doomed : /\ Whole(t) => Whole(t)'
                                  /\ Broken(t)' => Broken(t)

\* A set is written that was doomed, or that had no manifest and, when it has one
\* now, has all the rest.
LEMMA SetWritten ==
    ASSUME IInv, NEW x, NEW new, sets' = [sets EXCEPT ![x] = new], Doomed' \subseteq Doomed,
           x \in Stamps => \/ x \in Doomed
                           \/ /\ ~Whole(x)
                              /\ new # NoSet /\ "manifest" \in new.parts =>
                                    new.parts = Parts /\ new.gone = {}
    PROVE  Kept
<1>1. \A s \in Stamps : s # x => sets'[s] = sets[s]
  BY DEF IInv, TypeOK
<1>2. x \in Stamps => sets'[x] = new
  BY DEF IInv, TypeOK
<1>3. \E y : Existing' \subseteq Existing \cup {y}
  BY <1>1 DEF Existing
<1>4. \A t \in Stamps \ Doomed : (Whole(t) => Whole(t)') /\ (Broken(t)' => Broken(t))
  BY <1>1, <1>2 DEF Whole, Broken, Complete
<1> QED
  BY <1>3, <1>4 DEF Kept

LEMMA SetsChange ==
    ASSUME IInv, [Next]_vars
    PROVE  ListOutdated \/ Kept
<1> DEFINE set == sets[backup.stamp]
<1>1. ASSUME sets' = sets, backup' = backup \/ Doomed' = {} PROVE Kept
  <2>1. \A s : Complete(s)' = Complete(s) /\ Whole(s)' = Whole(s)
    BY <1>1 DEF Complete, Whole
  <2>2. Existing' = Existing /\ Doomed' \subseteq Doomed
    BY <1>1 DEF Existing, Doomed
  <2> QED
    BY <2>1, <2>2 DEF Kept, Broken
<1>2. ASSUME NEW r \in Requests, Serve(r) PROVE Kept
  <2>1. CASE DropObject(r) /\ Sweeping
    <3> DEFINE new == [set EXCEPT !.lost = @ \cup {req[r].file}]
    <3>1. sets' = [sets EXCEPT ![backup.stamp] = new] /\ Doomed' = Doomed
      BY <2>1 DEF DropObject, Doomed
    <3>2. set \in BackupSet /\ "manifest" \notin set.parts
      BY <2>1 DEF Sweeping, IInv, BackupOK, PartsAt
    <3>3. new.parts = set.parts /\ ~Whole(backup.stamp)
      BY <3>2 DEF BackupSet, Complete, Whole
    <3> HIDE DEF new, set
    <3> QED
      BY <3>1, <3>2, <3>3, SetWritten
  <2>2. ASSUME ~(DropObject(r) /\ Sweeping) PROVE sets' = sets /\ backup' = backup
    BY <1>2, <2>2 DEF Serve, BeginUpload, PutObject, CommitUpload, BeginDelete, CommitDelete, DropObject,
                      CutOff, PutLost, scriptVars
  <2> QED
    BY <1>1, <2>1, <2>2
<1>3. ASSUME BackUp PROVE ListOutdated \/ Kept
  <2>0. backup # Idle => backup \in Backup
    BY DEF IInv, TypeOK
  <2>1. ASSUME NEW s \in Stamps, MakeSet(s) PROVE Kept
    <3> DEFINE new == [counted |-> 0, dump |-> {}, objects |-> {},
                       gone |-> {}, parts |-> {}, lost |-> {}]
    <3>1. /\ sets' = [sets EXCEPT ![s] = new] /\ new.parts = {}
          /\ backup' = [stamp |-> s, left |-> {}, doomed |-> {}, step |-> "made"]
      BY <2>1 DEF MakeSet
    <3>2. Doomed' = {}
      BY <3>1 DEF Doomed
    <3>3. ~Whole(s)
      <4>1. s \in Nat /\ (s \in Existing => s < s)
        BY <2>1, StampsAreTimes DEF MakeSet
      <4> QED
        BY <4>1 DEF Whole, Complete, Existing
    <3> HIDE DEF new
    <3> QED
      BY <3>1, <3>2, <3>3, SetWritten
  <2>2. ASSUME CountRows \/ DumpDatabase \/ (\E f \in Files : CopyObject(f)) \/ WriteIndex
        PROVE  Kept
    <3>1. /\ backup # Idle /\ set \in BackupSet /\ "manifest" \notin set.parts
          /\ Doomed' \subseteq Doomed
      <4>1. backup # Idle /\ backup.step \in {"made", "counted", "dumped", "copying"}
        BY <2>2 DEF CountRows, DumpDatabase, CopyObject, WriteIndex, BackupAt
      <4>2. set \in BackupSet /\ "manifest" \notin set.parts
        BY <4>1 DEF IInv, BackupOK, PartsAt
      <4>3. backup'.doomed = backup.doomed
        BY <2>0, <2>2, <4>1 DEF CountRows, DumpDatabase, CopyObject, WriteIndex, Backup
      <4> QED
        BY <4>1, <4>2, <4>3 DEF Doomed
    <3>2. \E new : sets' = [sets EXCEPT ![backup.stamp] = new] /\ "manifest" \notin new.parts
      <4>1. CASE CountRows
        <5>1. [set EXCEPT !.counted = Cardinality(rows)].parts = set.parts
          BY <3>1 DEF BackupSet
        <5> QED
          BY <3>1, <4>1, <5>1 DEF CountRows
      <4>2. CASE DumpDatabase
        <5> DEFINE new == [set EXCEPT !.dump = rows, !.parts = @ \cup {"dump"}, !.lost = rows \ objects]
        <5>1. sets' = [sets EXCEPT ![backup.stamp] = new]
          BY <4>2 DEF DumpDatabase
        <5>2. new.parts = set.parts \cup {"dump"}
          BY <3>1 DEF BackupSet
        <5> QED
          BY <3>1, <5>1, <5>2
      <4>3. ASSUME NEW f \in Files, CopyObject(f)
            PROVE  \E new : sets' = [sets EXCEPT ![backup.stamp] = new] /\ "manifest" \notin new.parts
        <5>1. [set EXCEPT !.objects = @ \cup {f}].parts = set.parts
          BY <3>1 DEF BackupSet
        <5>2. sets' = [sets EXCEPT ![backup.stamp] = [set EXCEPT !.objects = @ \cup {f}]]
          BY <4>3 DEF CopyObject
        <5> QED
          BY <3>1, <5>1, <5>2
      <4>4. CASE WriteIndex
        <5>1. [set EXCEPT !.parts = @ \cup {"index"}].parts = set.parts \cup {"index"}
          BY <3>1 DEF BackupSet
        <5>2. sets' = [sets EXCEPT ![backup.stamp] = [set EXCEPT !.parts = @ \cup {"index"}]]
          BY <4>4 DEF WriteIndex
        <5> QED
          BY <3>1, <5>1, <5>2
      <4> QED
        BY <2>2, <4>1, <4>2, <4>3, <4>4
    <3>3. PICK new : sets' = [sets EXCEPT ![backup.stamp] = new] /\ "manifest" \notin new.parts
      BY <3>2
    <3>4. ~Whole(backup.stamp)
      BY <3>1 DEF Whole, Complete
    <3> HIDE DEF set
    <3> QED
      BY <3>1, <3>3, <3>4, SetWritten
  <2>3. CASE WriteManifest
    <3> DEFINE new == [set EXCEPT !.parts = @ \cup {"manifest"}]
    <3>1. /\ backup # Idle /\ backup.step = "indexed"
          /\ sets' = [sets EXCEPT ![backup.stamp] = new]
          /\ backup' = [backup EXCEPT !.step = "pruning"]
      BY <2>3 DEF WriteManifest, BackupAt
    <3>2. set \in BackupSet /\ set.parts = {"dump", "index"} /\ set.gone = {}
      BY <3>1 DEF IInv, BackupOK, PartsAt
    <3>3. new.parts = Parts /\ new.gone = {} /\ ~Whole(backup.stamp)
      BY <3>2 DEF BackupSet, Parts, Whole, Complete
    <3>4. Doomed' \subseteq Doomed
      BY <2>0, <3>1 DEF Doomed, Backup
    <3> HIDE DEF new
    <3> QED
      BY <3>1, <3>3, <3>4, SetWritten
  <2>4. CASE BackupFails
    <3>1. /\ sets' = [sets EXCEPT ![backup.stamp] = NoSet] /\ ~Whole(backup.stamp)
          /\ Doomed' = {}
      BY <2>4 DEF BackupFails, IInv, BackupOK, PartsAt, Whole, Complete, Doomed
    <3> QED
      BY <3>1, SetWritten
  <2>5. ASSUME NEW s \in Stamps,
               \/ \E p \in Parts : RemovePart(s, p)
               \/ \E f \in Files : RemoveFile(s, f)
               \/ RemoveSet(s)
        PROVE  Kept
    <3>1. s \in Doomed /\ \E new : sets' = [sets EXCEPT ![s] = new]
      BY <2>5 DEF RemovePart, RemoveFile, RemoveSet, Removing, BackupAt, Doomed
    <3>2. Doomed' \subseteq Doomed
      BY <2>0, <2>5 DEF RemovePart, RemoveFile, RemoveSet, Removing, BackupAt, Doomed, Backup
    <3> QED
      BY <3>1, <3>2, SetWritten
  <2>6. CASE ListObjects
    <3>1. sets' = sets /\ Doomed' \subseteq Doomed
      BY <2>0, <2>6 DEF ListObjects, BackupAt, Doomed, Backup
    <3>2. sets' = [sets EXCEPT ![backup.stamp] = set] /\ backup # Idle /\ backup.step = "dumped"
      BY <2>6, <3>1 DEF ListObjects, BackupAt, IInv, TypeOK
    <3>3. set \in BackupSet /\ ~Whole(backup.stamp) /\ "manifest" \notin set.parts
      BY <3>2 DEF IInv, BackupOK, PartsAt, Whole, Complete
    <3> HIDE DEF set
    <3> QED
      BY <3>1, <3>2, <3>3, SetWritten
  <2>7. CASE BackupKilled \/ BackupDone
    <3>1. sets' = sets /\ Doomed' = {}
      BY <2>7 DEF BackupKilled, BackupDone, Doomed
    <3> QED
      BY <1>1, <3>1
  <2> QED
    BY <1>3, <2>1, <2>2, <2>3, <2>4, <2>5, <2>6, <2>7 DEF BackUp
<1>4. ASSUME PutBack PROVE Kept
  BY <1>1, <1>4 DEF PutBack, BeginRestore, RestoreDatabase, ReadIndex, RestoreObject, CompareCounts,
                    SelectRows, HeadObject, Verified, RestoreFails
<1>5. CASE UNCHANGED vars
  BY <1>1, <1>5 DEF vars, scriptVars
<1> QED
  BY <1>2, <1>3, <1>4, <1>5 DEF Next

LEMMA FewSetsStep == IInv /\ FewSets /\ [Next]_vars => FewSets'
<1> SUFFICES ASSUME IInv, FewSets, [Next]_vars PROVE FewSets'
  OBVIOUS
<1>1. PICK x : Existing' \subseteq Existing \cup {x}
  BY SetsChange DEF Kept, ListOutdated, Existing
<1>2. IsFiniteSet(Existing \cup {x})
  BY FS_AddElement DEF FewSets
<1> QED
  BY <1>1, <1>2, FS_Subset DEF FewSets

LEMMA Least ==
    ASSUME NEW T \in SUBSET Nat, T # {}
    PROVE  \E x \in T : \A y \in T : x <= y
<1> DEFINE R == OpToRel(<, Nat)
<1>1. IsWellFoundedOn(R, Nat)
  BY NatLessThanWellFounded
<1>2. \A x, y \in Nat : x < y => <<x, y>> \in R
  BY DEF OpToRel
<1> HIDE DEF R
<1>3. PICK x \in T : \A y \in T : ~(<<y, x>> \in R)
  BY <1>1, WFMin
<1>4. \A y \in T : x <= y
  <2> TAKE y \in T
  <2>1. x \in Nat /\ y \in Nat /\ ~(y < x)
    BY <1>2, <1>3
  <2> QED
    BY <2>1
<1> QED
  BY <1>4

\* Of a finite set of times, those that have fewer than k later ones are k, when
\* there are as many: the latest of the others would have k later ones, all of
\* which are among the first.
LEMMA NewestKept ==
    ASSUME NEW S \in SUBSET Nat, IsFiniteSet(S), NEW s \in Nat, NEW k \in Nat,
           Cardinality({t \in S : t > s}) >= k
    PROVE  Cardinality({t \in S : t > s /\ Cardinality({u \in S : u > t}) < k}) >= k
<1> DEFINE Later(t) == {u \in S : u > t}
           Newest == {t \in S : t > s /\ Cardinality(Later(t)) < k}
           Others == Later(s) \ Newest
<1>1. \A t : IsFiniteSet(Later(t)) /\ Cardinality(Later(t)) \in Nat
  <2>1. \A t : Later(t) \subseteq S
    OBVIOUS
  <2> QED
    BY <2>1, FS_Subset, FS_CardinalityType
<1>2. Newest \subseteq Later(s) /\ Others \subseteq Later(s) /\ IsFiniteSet(Newest)
         /\ Cardinality(Newest) \in Nat
  <2>1. Newest \subseteq Later(s) /\ Others \subseteq Later(s)
    OBVIOUS
  <2> QED
    BY <1>1, <2>1, FS_Subset, FS_CardinalityType
<1>3. \A t \in Others : t \in S /\ t \in Nat /\ t > s /\ Cardinality(Later(t)) >= k
  <2> TAKE t \in Others
  <2>1. t \in S /\ t > s /\ t \in Nat /\ ~(Cardinality(Later(t)) < k)
    OBVIOUS
  <2> HIDE DEF Later
  <2> QED
    BY <1>1, <2>1
<1>4. CASE Others = {}
  <2>1. Newest = Later(s)
    BY <1>2, <1>4
  <2> QED
    BY <2>1
<1>5. CASE Others # {}
  <2> DEFINE T == {Cardinality(Later(t)) : t \in Others}
  <2>1. PICK m \in Others : \A t \in Others : Cardinality(Later(m)) <= Cardinality(Later(t))
    <3> HIDE DEF Later, Others
    <3>1. T \in SUBSET Nat /\ T # {}
      BY <1>1, <1>5
    <3>2. PICK x \in T : \A y \in T : x <= y
      BY <3>1, Least
    <3> QED
      BY <3>2
  <2>2. \A v \in Others : ~(v > m)
    <3> SUFFICES ASSUME NEW v \in Others, v > m PROVE FALSE
      OBVIOUS
    <3>1. v \in S /\ v \in Nat /\ m \in Nat
      BY <1>3
    <3>2. Later(v) \subseteq Later(m) /\ v \in Later(m) /\ v \notin Later(v)
      <4>1. \A u \in S : u \in Nat /\ (u > v => u > m)
        BY <3>1
      <4>2. ~(v > v)
        BY <3>1
      <4> QED
        BY <3>1, <4>1, <4>2
    <3> HIDE DEF Later, Others
    <3>3. Cardinality(Later(v)) < Cardinality(Later(m))
      <4>1. Cardinality(Later(v)) <= Cardinality(Later(m))
            /\ (Cardinality(Later(v)) = Cardinality(Later(m)) => Later(v) = Later(m))
        BY <1>1, <3>2, FS_Subset
      <4> QED
        BY <1>1, <3>2, <4>1
    <3> QED
      BY <1>1, <2>1, <3>3
  <2>3. Later(m) \subseteq Newest
    <3> SUFFICES ASSUME NEW u \in Later(m) PROVE u \in Newest
      OBVIOUS
    <3>1. m \in Nat /\ u \in S /\ u \in Nat /\ u > m /\ m > s
      BY <1>3
    <3>2. u \in Later(s)
      BY <3>1
    <3>3. u \notin Others
      BY <2>2, <3>1
    <3> QED
      BY <3>2, <3>3
  <2> HIDE DEF Later, Newest, Others
  <2>4. Cardinality(Later(m)) <= Cardinality(Newest) /\ Cardinality(Later(m)) >= k
    BY <1>2, <1>3, <2>3, FS_Subset
  <2>5. Cardinality(Newest) >= k
    BY <1>1, <1>2, <2>4
  <2> QED
    BY <2>5 DEF Newest, Later
<1> QED
  BY <1>4, <1>5

\* What is listed to be removed has Keep newer sets that have all their files
\* and are not listed: one that has lost a file is always listed.
LEMMA ListedAreOld == IInv /\ FewSets /\ PruneOK /\ ListOutdated => PruneOK'
<1> SUFFICES ASSUME IInv, FewSets, PruneOK, ListOutdated, NEW s \in Stamps,
                    s \in Doomed' \/ Broken(s)'
             PROVE  Keep > 0 /\ Cardinality(Standing(s)') >= Keep
  BY DEF PruneOK
<1> DEFINE S == {t \in Stamps : Complete(t)}
           Left == {t \in S : t > s /\ Cardinality({u \in S : u > t}) < Keep}
<1>1. /\ sets' = sets /\ Doomed = {}
      /\ Doomed' = IF Keep > 0 THEN Outdated ELSE {}
  <2>1. /\ backup # Idle /\ backup \in Backup /\ backup.step = "pruning"
        /\ backup' = [backup EXCEPT !.step = "removing",
                                    !.doomed = IF Keep > 0 THEN Outdated ELSE {}]
    BY DEF ListOutdated, BackupAt, IInv, TypeOK
  <2>2. backup'.doomed = (IF Keep > 0 THEN Outdated ELSE {}) /\ backup'.step = "removing"
        /\ backup' # Idle
    <3>1. Outdated \subseteq Stamps
      BY DEF Outdated
    <3>2. backup'.doomed = (IF Keep > 0 THEN Outdated ELSE {}) /\ backup'.step = "removing"
      BY <2>1 DEF Backup
    <3>3. backup' \in Backup
      BY <2>1, <3>1 DEF Backup
    <3> QED
      BY <2>1, <3>2, <3>3, RunningIsNotIdle
  <2> QED
    BY <2>1, <2>2 DEF ListOutdated, Doomed, IInv, BackupOK
<1>2. \A t : Whole(t)' = Whole(t) /\ Broken(t)' = Broken(t)
  BY <1>1 DEF Whole, Broken, Complete
<1>3. S \in SUBSET Nat /\ IsFiniteSet(S) /\ s \in Nat
  <2>1. S \subseteq Existing
    BY DEF Complete, Existing
  <2> QED
    BY <2>1, StampsAreTimes, FS_Subset DEF FewSets
<1>4. \A t : {u \in Stamps : Complete(u) /\ u > t} = {u \in S : u > t}
  OBVIOUS
<1>5. \A t : Cardinality({u \in S : u > t}) \in Nat /\ IsFiniteSet({u \in S : u > t})
  <2>1. \A t : {u \in S : u > t} \subseteq S
    OBVIOUS
  <2> QED
    BY <1>3, <2>1, FS_Subset, FS_CardinalityType
<1>6. ASSUME NEW t \in Stamps, Broken(t)
      PROVE  Keep > 0 /\ t \in Outdated
  <2>1. Keep > 0 /\ Cardinality(Standing(t)) >= Keep
    BY <1>6 DEF PruneOK
  <2>2. Standing(t) \subseteq {u \in S : u > t}
    BY DEF Standing, Whole
  <2> HIDE DEF S
  <2>3. IsFiniteSet(Standing(t)) /\ Cardinality(Standing(t)) <= Cardinality({u \in S : u > t})
    BY <1>5, <2>2, FS_Subset
  <2>4. Cardinality(Standing(t)) \in Nat
    BY <2>3, FS_CardinalityType
  <2>5. Cardinality({u \in S : u > t}) >= Keep
    <3>1. PICK a, b : a = Cardinality(Standing(t)) /\ b = Cardinality({u \in S : u > t})
      OBVIOUS
    <3>2. a \in Nat /\ b \in Nat /\ a <= b /\ a >= Keep
      BY <1>5, <2>1, <2>3, <2>4, <3>1
    <3> QED
      BY <3>1, <3>2, KeepIsNatural
  <2> QED
    BY <1>4, <1>6, <2>1, <2>5 DEF Outdated, Broken
<1>7. Keep > 0 /\ s \in Outdated
  BY <1>1, <1>2, <1>6
<1>8. Cardinality({t \in S : t > s}) >= Keep
  BY <1>4, <1>7 DEF Outdated
<1>9. Cardinality(Left) >= Keep
  BY <1>3, <1>8, KeepIsNatural, NewestKept
<1>10. Left \subseteq Standing(s)' /\ Standing(s)' \subseteq S
  <2>1. ASSUME NEW t \in Left
        PROVE  t \in Standing(s)'
    <3>1. t \in Stamps /\ Complete(t) /\ t > s /\ Cardinality({u \in S : u > t}) < Keep
      OBVIOUS
    <3>2. t \notin Outdated
      <4>1. PICK b : b = Cardinality({u \in S : u > t})
        OBVIOUS
      <4>2. b \in Nat /\ b < Keep /\ ~(b >= Keep)
        <5>1. b \in Nat /\ b < Keep
          BY <1>5, <3>1, <4>1
        <5> QED
          BY <5>1, KeepIsNatural
      <4> QED
        BY <1>4, <4>1, <4>2 DEF Outdated
    <3>3. Whole(t)
      BY <1>6, <3>1, <3>2 DEF Broken
    <3> QED
      BY <1>1, <1>2, <3>1, <3>2, <3>3 DEF Standing
  <2>2. Standing(s)' \subseteq S
    BY <1>1, <1>2 DEF Standing, Whole
  <2> QED
    BY <2>1, <2>2
<1>11. Cardinality(Standing(s)') >= Keep
  <2> DEFINE T == Standing(s)'
  <2>1. T \in SUBSET S /\ Left \in SUBSET T
    BY <1>10
  <2> HIDE DEF S, Left, T
  <2>2. IsFiniteSet(T) /\ Cardinality(Left) <= Cardinality(T) /\ IsFiniteSet(Left)
    BY <1>3, <2>1, FS_Subset
  <2>3. PICK a, b : a = Cardinality(Left) /\ b = Cardinality(T)
    OBVIOUS
  <2>4. a \in Nat /\ b \in Nat /\ a <= b /\ a >= Keep
    BY <1>9, <2>2, <2>3, FS_CardinalityType
  <2>5. b >= Keep
    BY <2>4, KeepIsNatural
  <2> QED
    BY <2>3, <2>5 DEF T
<1> QED
  BY <1>7, <1>11

\* Standing sets are not fewer after any other step.
LEMMA NotFewer ==
    ASSUME NEW A, NEW B, IsFiniteSet(B), A \subseteq B, Cardinality(A) >= Keep
    PROVE  Cardinality(B) >= Keep
<1>1. PICK a, b : a = Cardinality(A) /\ b = Cardinality(B)
  OBVIOUS
<1>2. a \in Nat /\ b \in Nat /\ a <= b /\ a >= Keep
  BY <1>1, FS_Subset, FS_CardinalityType
<1>3. b >= Keep
  BY <1>2, KeepIsNatural
<1> QED
  BY <1>1, <1>3

LEMMA PruneStep == IInv /\ FewSets /\ PruneOK /\ [Next]_vars => PruneOK'
<1> SUFFICES ASSUME IInv, FewSets, PruneOK, [Next]_vars PROVE PruneOK'
  OBVIOUS
<1>1. ASSUME Kept, NEW s \in Stamps, s \in Doomed' \/ Broken(s)'
      PROVE  Keep > 0 /\ Cardinality(Standing(s)') >= Keep
  <2>1. Keep > 0 /\ Cardinality(Standing(s)) >= Keep
    BY <1>1 DEF PruneOK, Kept
  <2> DEFINE A == Standing(s)
             B == Standing(s)'
  <2>2. A \subseteq B
    BY <1>1 DEF Standing, Kept
  <2>3. B \subseteq Existing'
    BY DEF Standing, Whole, Complete, Existing
  <2>4. IsFiniteSet(Existing')
    BY FewSetsStep DEF FewSets
  <2>5. Cardinality(A) >= Keep
    BY <2>1
  <2> HIDE DEF A, B
  <2>6. IsFiniteSet(B)
    BY <2>3, <2>4, FS_Subset
  <2>7. Cardinality(B) >= Keep
    BY <2>2, <2>5, <2>6, NotFewer
  <2> QED
    BY <2>1, <2>7 DEF B
<1> QED
  BY <1>1, SetsChange, ListedAreOld DEF PruneOK

LEMMA InitPrune == Init => FewSets /\ PruneOK
<1> SUFFICES ASSUME Init PROVE FewSets /\ PruneOK
  OBVIOUS
<1>1. Existing = {} /\ Doomed = {} /\ \A s \in Stamps : ~Complete(s)
  BY DEF Init, Existing, Doomed, Complete
<1> QED
  BY <1>1, FS_EmptySet DEF FewSets, PruneOK, Broken

\* What is standing supersedes.
LEMMA StandingSupersedes ==
    ASSUME FewSets, PruneOK, NEW s \in Stamps, s \in Doomed \/ Broken(s)
    PROVE  Superseded(s)
<1> DEFINE A == Standing(s)
           B == {t \in Stamps : t > s /\ Whole(t)}
<1>1. Keep > 0 /\ Cardinality(A) >= Keep
  BY DEF PruneOK
<1>2. A \subseteq B /\ B \subseteq Existing
  BY DEF Standing, Whole, Complete, Existing
<1> HIDE DEF A, B
<1>3. IsFiniteSet(B)
  BY <1>2, FS_Subset DEF FewSets
<1>4. Cardinality(B) >= Keep
  BY <1>1, <1>2, <1>3, NotFewer
<1> QED
  BY <1>1, <1>4 DEF Superseded, B

\* A set with a manifest lacks only objects deleted while it was taken, and has
\* lost a file only when Keep newer sets have all of theirs, wherever in a
\* pruning the script was killed (scripts/backup.py).
THEOREM BackupIsComplete == Spec => []BackupMissesOnlyDeleted
<1>1. Init => FewSets /\ PruneOK
  BY InitPrune
<1>2. IInv /\ FewSets /\ PruneOK => BackupMissesOnlyDeleted
  BY StandingSupersedes DEF BackupMissesOnlyDeleted, IInv, CopiesOK, Broken
<1> QED
  BY <1>1, <1>2, InvariantHolds, FewSetsStep, PruneStep, PTL DEF Spec

\* Whatever is made, fails or is killed in whatever order, pruning touches a
\* complete set only when Keep newer ones have all their files: directories that
\* a killed backup left do not count (scripts/backup.py, prune).
THEOREM NewestSetsAreKept == Spec => CompleteSetsKept
<1>1. Init => FewSets /\ PruneOK
  BY InitPrune
<1>2. ASSUME IInv, FewSets, PruneOK, [Next]_vars, NEW s \in Stamps, Whole(s), ~Whole(s)'
      PROVE  Superseded(s)'
  <2>1. Kept
    BY <1>2, SetsChange DEF ListOutdated, Whole, Complete
  <2>2. s \in Doomed
    BY <1>2, <2>1 DEF Kept
  <2> DEFINE A == Standing(s)
             B == {t \in Stamps : t > s /\ Whole(t)'}
  <2>3. Keep > 0 /\ Cardinality(A) >= Keep
    BY <1>2, <2>2 DEF PruneOK
  <2>4. A \subseteq B
    BY <2>1 DEF Standing, Kept
  <2>5. B \subseteq Existing' /\ IsFiniteSet(Existing')
    BY <1>2, FewSetsStep DEF Whole, Complete, Existing, FewSets
  <2> HIDE DEF A, B
  <2>6. IsFiniteSet(B)
    BY <2>5, FS_Subset
  <2>7. Cardinality(B) >= Keep
    BY <2>3, <2>4, <2>6, NotFewer
  <2> QED
    BY <2>3, <2>7 DEF Superseded, B
<1>3. IInv /\ FewSets /\ PruneOK /\ [Next]_vars =>
         [\A s \in Stamps : Whole(s) /\ ~Whole(s)' => Superseded(s)']_sets
  BY <1>2
<1> QED
  BY <1>1, <1>3, InvariantHolds, FewSetsStep, PruneStep, PTL DEF Spec, CompleteSetsKept

=============================================================================
