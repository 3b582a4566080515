----------------------------- MODULE DbPersist -----------------------------
(***************************************************************************)
(* Persistence of the kettle databases of a VM (images/kettle-vm):         *)
(* sealing-key.sh, db-persist.sh, kettle-launcher.sh and their systemd     *)
(* units.  The root file system is in memory: what survives a VM is the    *)
(* encrypted copy under /persistent/db/<measurement>, written by the       *)
(* ExecStop of db-persist.service and read by kettle-launcher.             *)
(*                                                                         *)
(* The writes to a database are numbered; a copy is named by the last write*)
(* it holds and the image it was made under, which stands for both the     *)
(* measurement (the directory) and the sealing key derived from it.  A copy*)
(* is "mixed" when it holds parts of several states of the database, and   *)
(* "garbage" when it was decrypted from a file that was not written to its *)
(* end.  A file is intact when its HMAC verifies.  CertCache adds the other*)
(* user of the sealing key and the disk.                                   *)
(***************************************************************************)
EXTENDS Naturals

CONSTANTS
    Dbs,        \* database directories db, db-0, ...
    Images,     \* VM images, by launch measurement
    MaxWrites,  \* bound: writes to a database
    MaxBoots,   \* bound: boots
    MaxDeaths,  \* bound: failures of kettle
    None

ASSUME NoneIsNoImage == None \notin Images \cup Dbs
ASSUME BoundsAssumption == {MaxWrites, MaxBoots, MaxDeaths} \subseteq Nat

VARIABLES
    image,     \* the image that runs, None while the VM is off
    sealed,    \* it has a sealing key, a measurement and /persistent
    kettle,    \* "restoring" (kettle-launcher in decrypt-all), "up", "down"
    todo,      \* files decrypt-all has still to try
    live,      \* the database directories
    stopping,  \* the VM shuts down
    save,      \* directories encrypt-all has still to archive
    job,       \* the encrypt_db in progress
    enc, meta, \* the files <db>.enc and <db>.meta of an image
    writes, boots, deaths

dbVars == <<image, sealed, kettle, todo, live, stopping, save, job, enc, meta,
            writes, boots, deaths>>
counters == <<writes, boots, deaths>>

Contents == [last : 0..MaxWrites, by : Images \cup {None}, is : {"whole", "mixed", "garbage"}]
Empty == [last |-> 0, by |-> None, is |-> "whole"]
Files == [data : Contents, intact : BOOLEAN]
Jobs == [db : Dbs, data : Contents, step : {"enc", "mac", "meta"}]

ASSUME NoneIsNoFile == None \notin Files

DbTypeOK ==
    /\ image \in Images \cup {None}
    /\ sealed \in BOOLEAN
    /\ kettle \in {"restoring", "up", "down"}
    /\ todo \subseteq Dbs
    /\ live \in [Dbs -> Contents]
    /\ stopping \in BOOLEAN
    /\ save \subseteq Dbs
    /\ job \in Jobs \cup {None}
    /\ enc \in [Images -> [Dbs -> Files \cup {None}]]
    /\ meta \in [Images -> [Dbs -> {"none", "truncated", "written"}]]
    /\ writes \in [Dbs -> 0..MaxWrites]
    /\ boots \in 0..MaxBoots /\ deaths \in 0..MaxDeaths

DbInit ==
    /\ image = None /\ sealed = FALSE
    /\ kettle = "down" /\ todo = {}
    /\ live = [d \in Dbs |-> Empty]
    /\ stopping = FALSE /\ save = {} /\ job = None
    /\ enc = [i \in Images |-> [d \in Dbs |-> None]]
    /\ meta = [i \in Images |-> [d \in Dbs |-> "none"]]
    /\ writes = [d \in Dbs |-> 0]
    /\ boots = 0 /\ deaths = 0

-----------------------------------------------------------------------------
(***************************************************************************)
(* Starting: sealing-key, then kettle-launcher.                            *)
(***************************************************************************)

\* decrypt-all visits the .enc files of this image's directory.
Backups(i, s) == {d \in Dbs : s /\ enc[i][d] # None}

\* A VM boots from an image; not every machine can derive a sealing key.
Boot(i, s) ==
    /\ image = None
    /\ boots < MaxBoots
    /\ boots' = boots + 1
    /\ image' = i
    /\ sealed' = s
    /\ kettle' = "restoring"
    /\ todo' = Backups(i, s)
    /\ UNCHANGED <<live, stopping, save, job, enc, meta, writes, deaths>>

\* decrypt_db accepts a file: the name in its metadata, if there are any,
\* matches, which truncated ones do not, and its HMAC verifies.
Accepts_NoHmac(i, d) == meta[i][d] # "truncated"

Accepts(i, d) ==
    /\ meta[i][d] # "truncated"
    /\ enc[i][d].intact

\* What comes out of a file.
Plain(file) == IF file.intact THEN file.data ELSE [file.data EXCEPT !.is = "garbage"]

Mixed(data) == [data EXCEPT !.is = "mixed"]

Restoring(d) ==
    /\ image # None
    /\ kettle = "restoring"
    /\ d \in todo
    /\ todo' = todo \ {d}

\* Mutant: the first file that is refused ends kettle-launcher.
Restore_Aborts(d) ==
    /\ Restoring(d)
    /\ IF Accepts(image, d)
       THEN live' = [live EXCEPT ![d] = Plain(enc[image][d])] /\ UNCHANGED kettle
       ELSE kettle' = "down" /\ UNCHANGED live
    /\ UNCHANGED <<image, sealed, stopping, save, job, enc, meta, counters>>

\* Mutant: one directory for all images, and a key that they share.
Restore_AnyImage(d) ==
    /\ Restoring(d)
    /\ \/ \E i \in Images :
             /\ enc[i][d] # None /\ Accepts(i, d)
             /\ live' = [live EXCEPT ![d] = Plain(enc[i][d])]
       \/ UNCHANGED live
    /\ UNCHANGED <<image, sealed, kettle, stopping, save, job, enc, meta, counters>>

\* decrypt_db: an accepted file replaces the directory, and extracting it may
\* fail half way; one that is refused, or does not decrypt, leaves the directory
\* as it is.
Restore(d) ==
    /\ Restoring(d)
    /\ \/ /\ Accepts(image, d)
          /\ live' = [live EXCEPT ![d] = Plain(enc[image][d])]
       \/ /\ Accepts(image, d)
          /\ live' = [live EXCEPT ![d] = Mixed(Plain(enc[image][d]))]
       \/ UNCHANGED live
    /\ UNCHANGED <<image, sealed, kettle, stopping, save, job, enc, meta, counters>>

\* kettle-launcher goes on whatever decrypt-all did.
Launch ==
    /\ image # None
    /\ kettle = "restoring"
    /\ todo = {}
    /\ kettle' = "up"
    /\ UNCHANGED <<image, sealed, todo, live, stopping, save, job, enc, meta, counters>>

\* kettle writes to a database.
Write(d) ==
    /\ kettle = "up"
    /\ writes[d] < MaxWrites
    /\ writes' = [writes EXCEPT ![d] = @ + 1]
    /\ live' = [live EXCEPT ![d].last = writes'[d], ![d].by = image]
    /\ UNCHANGED <<image, sealed, kettle, todo, stopping, save, job, enc, meta, boots, deaths>>

\* kettle fails (bound: MaxDeaths), or is stopped with the VM.
KettleEnds ==
    /\ kettle # "down"
    /\ \/ stopping /\ UNCHANGED deaths
       \/ ~stopping /\ deaths < MaxDeaths /\ deaths' = deaths + 1
    /\ kettle' = "down"
    /\ todo' = {}
    /\ UNCHANGED <<image, sealed, live, stopping, save, job, enc, meta, writes, boots>>

\* Restart=on-failure runs kettle-launcher again, decrypt-all included.
KettleRestarts ==
    /\ image # None
    /\ kettle = "down" /\ ~stopping
    /\ kettle' = "restoring"
    /\ todo' = Backups(image, sealed)
    /\ UNCHANGED <<image, sealed, live, stopping, save, job, enc, meta, counters>>

-----------------------------------------------------------------------------
(***************************************************************************)
(* Shutdown. db-persist.service and kettle-launcher.service are not ordered*)
(* against each other, so kettle may still run.                            *)
(***************************************************************************)
Shutdown ==
    /\ image # None /\ ~stopping
    /\ stopping' = TRUE
    /\ save' = IF sealed THEN Dbs ELSE {}
    /\ UNCHANGED <<image, sealed, kettle, todo, live, job, enc, meta, counters>>

\* encrypt_db archives a directory that has content. tar can see several
\* states of the files of a running kettle; when it notices, it fails and the
\* old backup stays.
Archive(d) ==
    /\ stopping /\ job = None
    /\ d \in save
    /\ save' = save \ {d}
    /\ \/ /\ live[d] # Empty
          /\ job' = [db |-> d, data |-> live[d], step |-> "enc"]
       \/ /\ live[d] # Empty
          /\ kettle = "up"
          /\ \/ job' = [db |-> d, data |-> Mixed(live[d]), step |-> "enc"]
             \/ UNCHANGED job
       \/ /\ live[d] = Empty
          /\ UNCHANGED job
    /\ UNCHANGED <<image, sealed, kettle, todo, live, stopping, enc, meta, counters>>

\* Mutant: the ciphertext alone, in a file that has no place for an HMAC.
WriteEnc_Bare ==
    /\ job # None /\ job.step = "enc"
    /\ enc' = [enc EXCEPT ![image][job.db] = job.data]
    /\ job' = [job EXCEPT !.step = "mac"]
    /\ UNCHANGED <<image, sealed, kettle, todo, live, stopping, save, meta, counters>>

\* The copy is written over the old file in place, without its HMAC. On a full /tmp
\* it is short, and the HMAC that follows is that of the short copy.
WriteEnc ==
    /\ job # None /\ job.step = "enc"
    /\ \E data \in {job.data, Mixed(job.data)} :
          enc' = [enc EXCEPT ![image][job.db] = [data |-> data, intact |-> FALSE]]
    /\ job' = [job EXCEPT !.step = "mac"]
    /\ UNCHANGED <<image, sealed, kettle, todo, live, stopping, save, meta, counters>>

\* The HMAC is appended. On a full disk the file stays as it is and encrypt_db
\* goes on all the same.
WriteMac ==
    /\ job # None /\ job.step = "mac"
    /\ \/ enc' = [enc EXCEPT ![image][job.db].intact = TRUE]
       \/ UNCHANGED enc
    /\ job' = [job EXCEPT !.step = "meta"]
    /\ UNCHANGED <<image, sealed, kettle, todo, live, stopping, save, meta, counters>>

\* The shell truncates the metadata before it writes them.
WriteMeta ==
    /\ job # None /\ job.step = "meta"
    /\ \/ /\ meta[image][job.db] # "truncated"
          /\ meta' = [meta EXCEPT ![image][job.db] = "truncated"] /\ UNCHANGED job
       \/ /\ meta[image][job.db] = "truncated"
          /\ meta' \in {meta, [meta EXCEPT ![image][job.db] = "written"]} /\ job' = None
    /\ UNCHANGED <<image, sealed, kettle, todo, live, stopping, save, enc, counters>>

\* The VM is gone, with all that was in memory.
PowerOff ==
    /\ image' = None
    /\ sealed' = FALSE
    /\ kettle' = "down" /\ todo' = {}
    /\ live' = [d \in Dbs |-> Empty]
    /\ stopping' = FALSE /\ save' = {} /\ job' = None
    /\ UNCHANGED <<enc, meta, counters>>

Halt ==
    /\ stopping
    /\ kettle = "down" /\ save = {} /\ job = None
    /\ PowerOff

Crash ==
    /\ image # None
    /\ PowerOff

\* db-persist remove.
Remove(d) ==
    /\ image # None /\ ~stopping /\ sealed
    /\ kettle # "restoring"
    /\ enc[image][d] # None
    /\ enc' = [enc EXCEPT ![image][d] = None]
    /\ meta' = [meta EXCEPT ![image][d] = "none"]
    /\ UNCHANGED <<image, sealed, kettle, todo, live, stopping, save, job, counters>>

-----------------------------------------------------------------------------
\* What happens to the databases while a VM is on, other than writes.
DbStep ==
    \/ \E d \in Dbs : Restore(d) \/ Archive(d) \/ Remove(d)
    \/ Launch \/ KettleEnds \/ KettleRestarts
    \/ Shutdown \/ WriteEnc \/ WriteMac \/ WriteMeta

DbNext ==
    \/ \E i \in Images, s \in BOOLEAN : Boot(i, s)
    \/ \E d \in Dbs : Write(d)
    \/ DbStep \/ Halt \/ Crash

DbSpec == DbInit /\ [][DbNext]_dbVars

\* kettle-launcher runs and systemd restarts it.
DbFairness ==
    /\ WF_dbVars(KettleRestarts) /\ WF_dbVars(Launch)
    /\ \A d \in Dbs : WF_dbVars(Restore(d))

-----------------------------------------------------------------------------
(***************************************************************************)
(* Properties.                                                             *)
(***************************************************************************)

\* A kettle never runs on a database that was made of an unfinished backup,
\* wherever a crash or a full disk cut encrypt-all short: the HMAC, written
\* last, keeps such a file from being restored. (It may run on a mixed one: tar
\* is not kept from racing with kettle, and an extraction that fails half way
\* is not undone.)
NoGarbageRestored == \A d \in Dbs : live[d].is # "garbage"

\* A kettle sees only what was written under its own image, also when machines
\* with different images take turns on one disk: db-persist.sh's "version
\* isolation".
VersionIsolation ==
    \A d \in Dbs : live[d].by \in {None, image}

\* On disk as well: a backup holds what its image wrote, and no restored garbage.
BackupsAreOurs ==
    \A i \in Images, d \in Dbs :
        enc[i][d] # None => enc[i][d].data.by \in {None, i} /\ enc[i][d].data.is # "garbage"

\* The files that decrypt-all has still to try are there.
TodoIsThere ==
    \A d \in todo : image # None /\ kettle = "restoring" /\ enc[image][d] \in Files

\* encrypt_db works on a copy of the running image's database, while it shuts down.
JobIsOurs ==
    /\ stopping => image # None
    /\ job # None =>
          /\ stopping
          /\ job.data.by \in {None, image} /\ job.data.is # "garbage"
          /\ job.step = "mac" => enc[image][job.db] \in Files

\* Disk and memory hold what the scripts can have left there, and the database
\* in memory is never another image's.
PersistInv ==
    /\ DbTypeOK
    /\ VersionIsolation
    /\ NoGarbageRestored
    /\ BackupsAreOurs
    /\ TodoIsThere
    /\ JobIsOurs

\* A backup that is damaged, refused or half extracted does not keep kettle
\* from starting.
BackupNeverBlocksStart ==
    (image # None /\ kettle = "restoring") ~> (kettle = "up" \/ stopping \/ image = None)

\* db-persist.service: "Persist Kettle Databases on Shutdown". When an image
\* that can seal has shut down in order, its backups hold the last writes: the
\* writes that the next kettle starts from are those the last one ended with.
ShutdownPersists ==
    [][Halt /\ sealed => \A d \in Dbs :
           live[d] # Empty => /\ enc[image][d] # None
                              /\ enc[image][d].data.last = live[d].last]_dbVars
=============================================================================
