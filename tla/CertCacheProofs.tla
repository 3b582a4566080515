-------------------------- MODULE CertCacheProofs --------------------------
(***************************************************************************)
(* TLAPS proofs about DbPersist and CertCache: any number of databases,    *)
(* images, hostnames, boots, crashes and days.                             *)
(***************************************************************************)
EXTENDS CertCache, TLAPS

-----------------------------------------------------------------------------
(***************************************************************************)
(* The databases: one lemma per kind of step.                              *)
(***************************************************************************)

LEMMA BoundsAreNat == MaxWrites \in Nat /\ MaxBoots \in Nat /\ MaxDeaths \in Nat
BY BoundsAssumption

LEMMA PersistStays ==
    ASSUME PersistInv, UNCHANGED dbVars
    PROVE  PersistInv'
BY DEF PersistInv, dbVars, DbTypeOK, VersionIsolation, NoGarbageRestored, BackupsAreOurs, TodoIsThere,
   JobIsOurs

LEMMA PersistInitInv == DbInit => PersistInv
<1> SUFFICES ASSUME DbInit PROVE PersistInv
  OBVIOUS
<1>1. Empty \in Contents
  BY BoundsAreNat DEF Empty, Contents
<1>2. DbTypeOK
  <2>1. live \in [Dbs -> Contents] /\ enc \in [Images -> [Dbs -> Files \cup {None}]]
    BY <1>1 DEF DbInit
  <2>2. writes \in [Dbs -> 0..MaxWrites] /\ boots \in 0..MaxBoots /\ deaths \in 0..MaxDeaths
    BY BoundsAreNat DEF DbInit
  <2>3. image \in Images \cup {None} /\ job \in Jobs \cup {None} /\ meta \in [Images -> [Dbs -> {"none", "truncated", "written"}]]
    BY DEF DbInit
  <2>4. sealed \in BOOLEAN /\ stopping \in BOOLEAN
    BY DEF DbInit
  <2> QED
    BY <2>1, <2>2, <2>3, <2>4 DEF DbInit, DbTypeOK
<1>3. VersionIsolation /\ NoGarbageRestored
  BY DEF DbInit, VersionIsolation, NoGarbageRestored, Empty
<1>4. BackupsAreOurs /\ TodoIsThere /\ JobIsOurs
  BY DEF DbInit, BackupsAreOurs, TodoIsThere, JobIsOurs
<1> QED
  BY <1>2, <1>3, <1>4 DEF PersistInv

\* A copy that is taken while it changes, or extracted half way, is no garbage.
LEMMA MixedContents ==
    ASSUME NEW c \in Contents
    PROVE  Mixed(c) \in Contents /\ Mixed(c).by = c.by /\ Mixed(c).is = "mixed"
BY DEF Mixed, Contents

LEMMA BackupsAreThere ==
    ASSUME PersistInv, NEW i \in Images, NEW s \in BOOLEAN
    PROVE  Backups(i, s) \subseteq Dbs /\ \A d \in Backups(i, s) : enc[i][d] \in Files
BY DEF PersistInv, DbTypeOK, Backups

LEMMA BootKeepsPersistInv ==
    ASSUME PersistInv, NEW i \in Images, NEW s \in BOOLEAN, Boot(i, s)
    PROVE  PersistInv'
<1>1. boots' \in 0..MaxBoots
  BY BoundsAssumption DEF Boot, PersistInv, DbTypeOK
<1>2. todo' \subseteq Dbs /\ \A d \in todo' : enc'[i][d] \in Files
  BY BackupsAreThere DEF Boot
<1>3. DbTypeOK'
  BY <1>1, <1>2 DEF Boot, PersistInv, DbTypeOK
<1>4. VersionIsolation' /\ NoGarbageRestored' /\ BackupsAreOurs'
  BY DEF Boot, PersistInv, VersionIsolation, NoGarbageRestored, BackupsAreOurs
<1>5. TodoIsThere' /\ JobIsOurs'
  BY <1>2, NoneIsNoImage DEF Boot, PersistInv, TodoIsThere, JobIsOurs
<1> QED
  BY <1>3, <1>4, <1>5 DEF PersistInv

\* Steps that change neither the directories nor the disk nor the encrypt_db in progress.
LEMMA LauncherKeepsPersistInv ==
    ASSUME PersistInv, Launch \/ KettleEnds \/ KettleRestarts \/ Shutdown
    PROVE  PersistInv'
<1>1. UNCHANGED <<image, sealed, live, job, enc, meta, writes, boots>>
  BY DEF Launch, KettleEnds, KettleRestarts, Shutdown, counters
<1>2. VersionIsolation' /\ NoGarbageRestored' /\ BackupsAreOurs'
  BY <1>1 DEF PersistInv, VersionIsolation, NoGarbageRestored, BackupsAreOurs
<1>3. todo' \subseteq Dbs /\ TodoIsThere'
  <2>1. CASE KettleRestarts
    <3>1. image \in Images
      BY <2>1 DEF KettleRestarts, PersistInv, DbTypeOK
    <3>2. sealed \in BOOLEAN
      BY DEF PersistInv, DbTypeOK
    <3> QED
      BY <1>1, <2>1, <3>1, <3>2, BackupsAreThere DEF KettleRestarts, TodoIsThere
  <2>2. CASE Launch \/ KettleEnds \/ Shutdown
    BY <1>1, <2>2 DEF Launch, KettleEnds, Shutdown, PersistInv, DbTypeOK, TodoIsThere
  <2> QED
    BY <2>1, <2>2
<1>4. stopping' \in BOOLEAN /\ save' \subseteq Dbs /\ deaths' \in 0..MaxDeaths
  <2>1. stopping \in BOOLEAN /\ save \subseteq Dbs /\ deaths \in 0..MaxDeaths
    BY DEF PersistInv, DbTypeOK
  <2>2. CASE KettleEnds
    BY <2>1, <2>2, BoundsAreNat DEF KettleEnds
  <2>3. CASE Launch \/ KettleRestarts
    BY <2>1, <2>3 DEF Launch, KettleRestarts, counters
  <2>4. CASE Shutdown
    BY <2>1, <2>4 DEF Shutdown, counters
  <2> QED
    BY <2>2, <2>3, <2>4
<1>5. kettle' \in {"restoring", "up", "down"}
  BY DEF Launch, KettleEnds, KettleRestarts, Shutdown, PersistInv, DbTypeOK
<1>6. DbTypeOK'
  BY <1>1, <1>3, <1>4, <1>5 DEF PersistInv, DbTypeOK
<1>7. JobIsOurs'
  BY <1>1 DEF Launch, KettleEnds, KettleRestarts, Shutdown, PersistInv, JobIsOurs
<1> QED
  BY <1>2, <1>3, <1>6, <1>7 DEF PersistInv

\* decrypt_db takes only an intact file of this image.
LEMMA RestoreKeepsPersistInv ==
    ASSUME PersistInv, NEW d \in Dbs, Restore(d)
    PROVE  PersistInv'
<1>1. /\ image \in Images /\ enc[image][d] \in Files /\ d \in todo
      /\ live \in [Dbs -> Contents]
  BY DEF Restore, Restoring, PersistInv, DbTypeOK, TodoIsThere
<1>2. UNCHANGED <<image, sealed, kettle, stopping, save, job, enc, meta, writes, boots, deaths>> /\ todo' = todo \ {d}
  BY DEF Restore, Restoring, counters
<1>3. \E c \in Contents : /\ live' = [live EXCEPT ![d] = c]
                          /\ c.by \in {None, image} /\ c.is # "garbage"
  <2>1. enc[image][d].data \in Contents
    BY <1>1 DEF Files
  <2>2. enc[image][d].data.by \in {None, image} /\ enc[image][d].data.is # "garbage"
    BY <1>1, NoneIsNoFile DEF PersistInv, BackupsAreOurs
  <2>3. CASE Accepts(image, d) /\ live' # live
    <3>1. Plain(enc[image][d]) = enc[image][d].data
      BY <2>3 DEF Accepts, Plain
    <3>2. \/ live' = [live EXCEPT ![d] = enc[image][d].data]
          \/ live' = [live EXCEPT ![d] = Mixed(enc[image][d].data)]
      BY <2>3, <3>1 DEF Restore
    <3> HIDE <3>1
    <3> QED
      BY <2>1, <2>2, <3>2, MixedContents
  <2>4. CASE live' = live
    <3>1. live' = live
      BY <2>4
    <3>2. live[d] \in Contents /\ live[d].by \in {None, image} /\ live[d].is # "garbage"
      BY <1>1 DEF PersistInv, VersionIsolation, NoGarbageRestored
    <3>3. live' = [live EXCEPT ![d] = live[d]]
      BY <1>1, <3>1
    <3> QED
      BY <3>2, <3>3
  <2> QED
    BY <2>3, <2>4 DEF Restore
<1>4. live' \in [Dbs -> Contents] /\ VersionIsolation' /\ NoGarbageRestored'
  BY <1>1, <1>2, <1>3 DEF PersistInv, VersionIsolation, NoGarbageRestored
<1>5. DbTypeOK'
  BY <1>2, <1>4 DEF PersistInv, DbTypeOK
<1>6. BackupsAreOurs' /\ TodoIsThere' /\ JobIsOurs'
  BY <1>2 DEF PersistInv, BackupsAreOurs, TodoIsThere, JobIsOurs
<1> QED
  BY <1>4, <1>5, <1>6 DEF PersistInv

LEMMA WriteKeepsPersistInv ==
    ASSUME PersistInv, NEW d \in Dbs, Write(d)
    PROVE  PersistInv'
<1>1. /\ image \in Images \cup {None} /\ live \in [Dbs -> Contents] /\ writes \in [Dbs -> 0..MaxWrites]
  BY DEF PersistInv, DbTypeOK
<1>2. UNCHANGED <<image, sealed, kettle, todo, stopping, save, job, enc, meta, boots, deaths>>
  BY DEF Write
<1>3. writes' \in [Dbs -> 0..MaxWrites]
  <2>1. writes[d] + 1 \in 0..MaxWrites
    BY <1>1, BoundsAreNat DEF Write
  <2> QED
    BY <1>1, <2>1 DEF Write
<1>4. PICK n \in 0..MaxWrites : live' = [live EXCEPT ![d] = [[@ EXCEPT !.last = n] EXCEPT !.by = image]]
  BY <1>1, <1>3 DEF Write
<1>5. /\ live' \in [Dbs -> Contents] /\ live'[d].by = image /\ live'[d].is = live[d].is
      /\ \A e \in Dbs : e # d => live'[e] = live[e]
  BY <1>1, <1>4 DEF Contents
<1>6. VersionIsolation' /\ NoGarbageRestored'
  BY <1>2, <1>5 DEF PersistInv, VersionIsolation, NoGarbageRestored
<1>7. DbTypeOK'
  BY <1>2, <1>3, <1>5 DEF PersistInv, DbTypeOK
<1>8. BackupsAreOurs' /\ TodoIsThere' /\ JobIsOurs'
  BY <1>2 DEF PersistInv, BackupsAreOurs, TodoIsThere, JobIsOurs
<1> QED
  BY <1>6, <1>7, <1>8 DEF PersistInv

\* encrypt_db works on what is in memory, and that is this image's.
LEMMA ArchiveKeepsPersistInv ==
    ASSUME PersistInv, NEW d \in Dbs, Archive(d)
    PROVE  PersistInv'
<1>1. /\ stopping /\ save' \subseteq Dbs
      /\ UNCHANGED <<image, sealed, kettle, todo, live, stopping, enc, meta, writes, boots, deaths>>
  BY DEF Archive, PersistInv, DbTypeOK, counters
<1>2. live[d] \in Contents /\ live[d].by \in {None, image} /\ live[d].is # "garbage"
  BY DEF PersistInv, DbTypeOK, VersionIsolation, NoGarbageRestored
<1>3. \/ job' = job
      \/ \E c \in Contents : /\ job' = [db |-> d, data |-> c, step |-> "enc"]
                             /\ c.by \in {None, image} /\ c.is # "garbage"
  BY <1>2, MixedContents DEF Archive
<1>4. CASE job' = job
  BY <1>1, <1>4 DEF PersistInv, DbTypeOK, VersionIsolation, NoGarbageRestored, BackupsAreOurs, TodoIsThere,
     JobIsOurs
<1>5. ASSUME NEW c \in Contents, job' = [db |-> d, data |-> c, step |-> "enc"],
             c.by \in {None, image}, c.is # "garbage"
      PROVE  PersistInv'
  <2>1. job' \in Jobs
    BY <1>5 DEF Jobs
  <2>2. job'.data = c /\ job'.step = "enc"
    BY <1>5
  <2> HIDE <1>5
  <2>3. DbTypeOK'
    BY <1>1, <2>1 DEF PersistInv, DbTypeOK
  <2>4. JobIsOurs'
    BY <1>1, <1>5, <2>2 DEF PersistInv, JobIsOurs
  <2>5. VersionIsolation' /\ NoGarbageRestored' /\ BackupsAreOurs' /\ TodoIsThere'
    BY <1>1 DEF PersistInv, VersionIsolation, NoGarbageRestored, BackupsAreOurs, TodoIsThere
  <2> QED
    BY <2>3, <2>4, <2>5 DEF PersistInv
<1> QED
  BY <1>3, <1>4, <1>5

\* The writes of encrypt_db: the file without its HMAC, the HMAC, the metadata.
LEMMA EncryptKeepsPersistInv ==
    ASSUME PersistInv, WriteEnc \/ WriteMac \/ WriteMeta
    PROVE  PersistInv'
<1>1. /\ job \in Jobs /\ image \in Images /\ stopping
      /\ job.data.by \in {None, image} /\ job.data.is # "garbage"
      /\ job.step = "mac" => enc[image][job.db] \in Files
  BY DEF WriteEnc, WriteMac, WriteMeta, PersistInv, DbTypeOK, JobIsOurs
<1>2. job.db \in Dbs /\ job.data \in Contents
  BY <1>1 DEF Jobs
<1>3. /\ enc \in [Images -> [Dbs -> Files \cup {None}]]
      /\ meta \in [Images -> [Dbs -> {"none", "truncated", "written"}]]
  BY DEF PersistInv, DbTypeOK
<1>4. UNCHANGED <<image, sealed, kettle, todo, live, stopping, save, writes, boots, deaths>>
  BY DEF WriteEnc, WriteMac, WriteMeta, counters
<1>5. meta' \in [Images -> [Dbs -> {"none", "truncated", "written"}]]
  <2>1. CASE WriteEnc
    BY <1>3, <2>1 DEF WriteEnc
  <2>2. CASE WriteMac
    BY <1>3, <2>2 DEF WriteMac
  <2>3. CASE WriteMeta
    <3>1. \/ meta' = meta
          \/ meta' = [meta EXCEPT ![image][job.db] = "truncated"]
          \/ meta' = [meta EXCEPT ![image][job.db] = "written"]
      BY <2>3 DEF WriteMeta
    <3>2. CASE meta' = [meta EXCEPT ![image][job.db] = "truncated"]
      BY <1>1, <1>2, <1>3, <3>2
    <3>3. CASE meta' = [meta EXCEPT ![image][job.db] = "written"]
      BY <1>1, <1>2, <1>3, <3>3
    <3> QED
      BY <1>3, <3>1, <3>2, <3>3
  <2> QED
    BY <2>1, <2>2, <2>3
<1>6. /\ job' \in Jobs \cup {None}
      /\ job' # None => /\ job'.db = job.db /\ job'.data = job.data
                        /\ job'.step = "mac" => WriteEnc
  <2>1. CASE WriteEnc
    BY <1>1, <2>1 DEF WriteEnc, Jobs
  <2>2. CASE WriteMac
    BY <1>1, <2>2 DEF WriteMac, Jobs
  <2>3. CASE WriteMeta
    BY <1>1, <2>3 DEF WriteMeta, Jobs
  <2> QED
    BY <2>1, <2>2, <2>3
<1>7. \/ enc' = enc /\ ~WriteEnc
      \/ \E f \in Files : /\ enc' = [enc EXCEPT ![image][job.db] = f]
                          /\ f.data.by \in {None, image} /\ f.data.is # "garbage"
  <2>1. CASE WriteEnc
    <3>1. PICK data \in {job.data, Mixed(job.data)} :
            enc' = [enc EXCEPT ![image][job.db] = [data |-> data, intact |-> FALSE]]
      BY <2>1 DEF WriteEnc
    <3>2. data \in Contents /\ data.by \in {None, image} /\ data.is # "garbage"
      BY <1>1, <1>2, MixedContents
    <3>3. [data |-> data, intact |-> FALSE] \in Files
      BY <3>2 DEF Files
    <3> QED
      BY <3>1, <3>2, <3>3
  <2>2. CASE WriteMac
    <3> DEFINE old == enc[image][job.db]
               new == [old EXCEPT !.intact = TRUE]
    <3>1. old \in Files /\ job.step = "mac"
      BY <1>1, <2>2 DEF WriteMac
    <3>2. old.data.by \in {None, image} /\ old.data.is # "garbage"
      BY <1>1, <1>2, <3>1, NoneIsNoFile DEF PersistInv, BackupsAreOurs
    <3>3. new \in Files /\ new.data = old.data
      BY <3>1 DEF Files
    <3>4. enc' = [enc EXCEPT ![image][job.db] = new] \/ (enc' = enc /\ ~WriteEnc)
      BY <2>2, <3>1 DEF WriteMac, WriteEnc
    <3> HIDE DEF new, old
    <3> QED
      BY <3>2, <3>3, <3>4
  <2>3. CASE WriteMeta
    BY <2>3 DEF WriteMeta, WriteEnc
  <2> QED
    BY <2>1, <2>2, <2>3
<1>8. /\ enc' \in [Images -> [Dbs -> Files \cup {None}]]
      /\ \A i \in Images, d \in Dbs :
             \/ enc'[i][d] = enc[i][d]
             \/ /\ enc'[i][d] \in Files /\ i = image
                /\ enc'[i][d].data.by \in {None, i} /\ enc'[i][d].data.is # "garbage"
      /\ WriteEnc => enc'[image][job.db] \in Files
  <2>1. CASE enc' = enc /\ ~WriteEnc
    BY <1>3, <2>1
  <2>2. CASE ~(enc' = enc /\ ~WriteEnc)
    <3>1. PICK f \in Files : /\ enc' = [enc EXCEPT ![image][job.db] = f]
                             /\ f.data.by \in {None, image} /\ f.data.is # "garbage"
      BY <1>7, <2>2
    <3> QED
      BY <1>1, <1>2, <1>3, <3>1
  <2> QED
    BY <1>7, <2>1, <2>2
<1>9. DbTypeOK'
  BY <1>4, <1>5, <1>6, <1>8 DEF PersistInv, DbTypeOK
<1>10. VersionIsolation' /\ NoGarbageRestored'
  BY <1>4 DEF PersistInv, VersionIsolation, NoGarbageRestored
<1>11. BackupsAreOurs'
  BY <1>8 DEF PersistInv, BackupsAreOurs
<1>12. TodoIsThere'
  BY <1>1, <1>4, <1>8 DEF PersistInv, DbTypeOK, TodoIsThere
<1>13. JobIsOurs'
  BY <1>1, <1>4, <1>6, <1>8 DEF PersistInv, JobIsOurs
<1> QED
  BY <1>9, <1>10, <1>11, <1>12, <1>13 DEF PersistInv

\* db-persist remove runs neither during decrypt-all nor during encrypt-all.
LEMMA RemoveKeepsPersistInv ==
    ASSUME PersistInv, NEW d \in Dbs, Remove(d)
    PROVE  PersistInv'
<1>1. /\ enc \in [Images -> [Dbs -> Files \cup {None}]] /\ image \in Images
      /\ meta \in [Images -> [Dbs -> {"none", "truncated", "written"}]]
  BY DEF PersistInv, DbTypeOK, Remove
<1>2. UNCHANGED <<image, sealed, kettle, todo, live, stopping, save, job, writes, boots, deaths>>
  BY DEF Remove, counters
<1>3. /\ enc' \in [Images -> [Dbs -> Files \cup {None}]]
      /\ \A i \in Images, e \in Dbs : enc'[i][e] \in {enc[i][e], None}
  BY <1>1 DEF Remove
<1>4. meta' \in [Images -> [Dbs -> {"none", "truncated", "written"}]]
  BY <1>1 DEF Remove
<1>5. todo = {} /\ job = None
  BY DEF Remove, PersistInv, TodoIsThere, JobIsOurs
<1>6. DbTypeOK'
  BY <1>2, <1>3, <1>4 DEF PersistInv, DbTypeOK
<1>7. VersionIsolation' /\ NoGarbageRestored' /\ BackupsAreOurs'
  BY <1>2, <1>3 DEF PersistInv, VersionIsolation, NoGarbageRestored, BackupsAreOurs
<1>8. TodoIsThere' /\ JobIsOurs'
  BY <1>2, <1>5 DEF PersistInv, TodoIsThere, JobIsOurs
<1> QED
  BY <1>6, <1>7, <1>8 DEF PersistInv

\* Wherever the power goes, only the disk is left.
LEMMA PowerOffKeepsPersistInv ==
    ASSUME PersistInv, PowerOff
    PROVE  PersistInv'
<1>1. Empty \in Contents
  BY BoundsAreNat DEF Empty, Contents
<1>2. live' \in [Dbs -> Contents] /\ VersionIsolation' /\ NoGarbageRestored'
  BY <1>1 DEF PowerOff, VersionIsolation, NoGarbageRestored, Empty
<1>3. sealed' \in BOOLEAN /\ stopping' \in BOOLEAN
  BY DEF PowerOff
<1>4. DbTypeOK'
  BY <1>2, <1>3 DEF PowerOff, PersistInv, DbTypeOK, counters
<1>5. BackupsAreOurs' /\ TodoIsThere' /\ JobIsOurs'
  BY DEF PowerOff, PersistInv, BackupsAreOurs, TodoIsThere, JobIsOurs
<1> QED
  BY <1>2, <1>4, <1>5 DEF PersistInv

LEMMA DbStepKeepsPersistInv ==
    ASSUME PersistInv, DbStep
    PROVE  PersistInv'
BY RestoreKeepsPersistInv, ArchiveKeepsPersistInv, RemoveKeepsPersistInv, LauncherKeepsPersistInv,
   EncryptKeepsPersistInv DEF DbStep

LEMMA NextKeepsPersistInv ==
    ASSUME PersistInv, Next
    PROVE  PersistInv'
<1>1. ASSUME NEW i \in Images, NEW s \in BOOLEAN, BootVm(i, s) PROVE PersistInv'
  BY <1>1, BootKeepsPersistInv DEF BootVm
<1>2. CASE StopVm
  BY <1>2, PowerOffKeepsPersistInv DEF StopVm, Halt, Crash
<1>3. CASE Databases
  BY <1>3, DbStepKeepsPersistInv, WriteKeepsPersistInv DEF Databases
<1>4. ASSUME Tick \/ LauncherStep \/ \E h \in Hosts : RemoveCerts(h) PROVE UNCHANGED dbVars
  BY <1>4 DEF Tick, LauncherStep, TryRestore, AcmeFails, AcmeServer, Certbot, WriteCertEnc, WriteCertMac,
     WriteCertMeta, Nginx, RemoveCerts
<1> QED
  BY <1>1, <1>2, <1>3, <1>4, PersistStays DEF Next

-----------------------------------------------------------------------------
(***************************************************************************)
(* The certificate: the parts of VmInv that are not PersistInv.            *)
(***************************************************************************)

CertInv == TypeOK /\ LauncherIsOnItsWay /\ CachedCertsAreTheirs /\ ServedCertIsOurs

LEMMA DaysAreNat ==
    /\ Life \in Nat /\ Buffer \in Nat /\ MaxDay \in Nat /\ Buffer <= Life
    /\ MaxAttempts \in Nat /\ MaxAttempts >= 1
BY DaysAssumption

LEMMA HostsAreNamed ==
    ASSUME TypeOK, hosts # <<>>
    PROVE  FirstHost \in Hosts /\ HostSet \subseteq Hosts /\ FirstHost \in HostSet
<1>1. hosts \in Seq(Hosts)
  BY SetupsAssumption DEF TypeOK
<1>2. 1 \in DOMAIN hosts /\ \A i \in DOMAIN hosts : hosts[i] \in Hosts
  BY <1>1
<1> QED
  BY <1>2 DEF FirstHost, HostSet

LEMMA NoCertsIsEmpty == NoCerts \in CertDirs /\ NoCerts.first = None /\ NoCerts.other = None
BY DEF NoCerts, CertDirs

LEMMA CertInitInv == Init => CertInv
<1> SUFFICES ASSUME Init PROVE CertInv
  OBVIOUS
<1>1. TypeOK
  BY DaysAreNat, NoCertsIsEmpty DEF Init, TypeOK
<1>2. LauncherIsOnItsWay
  BY DEF Init, DbInit, LauncherIsOnItsWay
<1>3. CachedCertsAreTheirs /\ ServedCertIsOurs
  BY DEF Init, CachedCertsAreTheirs, ServedCertIsOurs
<1> QED
  BY <1>1, <1>2, <1>3 DEF CertInv

\* What the databases do does not touch the certificates, nor which image runs.
LEMMA DatabasesKeepImage ==
    ASSUME Databases
    PROVE  UNCHANGED <<image, certVars>>
BY DEF Databases, DbStep, Restore, Archive, Remove, Launch, KettleEnds, KettleRestarts, Shutdown, WriteEnc,
   WriteMac, WriteMeta, Write

LEMMA CertStays ==
    ASSUME CertInv, UNCHANGED <<image, certVars>>
    PROVE  CertInv'
<1>1. UNCHANGED <<image, setup, day, hosts, step, attempt, letsencrypt, nginx, since, cenc, cmeta>>
  BY DEF certVars, launcherVars, cacheVars
<1>2. TypeOK' /\ CachedCertsAreTheirs'
  BY <1>1 DEF CertInv, TypeOK, CachedCertsAreTheirs, Theirs, MadeUpFor, FirstHost
<1>3. LauncherIsOnItsWay'
  BY <1>1 DEF CertInv, LauncherIsOnItsWay, Ready, InTime, MadeUpFor, FirstHost
<1>4. ServedCertIsOurs'
  BY <1>1 DEF CertInv, ServedCertIsOurs, InTime, FirstHost
<1> QED
  BY <1>2, <1>3, <1>4 DEF CertInv

\* Boots, power cuts and days.
LEMMA BootKeepsCertInv ==
    ASSUME CertInv, NEW i \in Images, NEW s \in BOOLEAN, BootVm(i, s)
    PROVE  CertInv'
<1>1. /\ image = None /\ image' = i /\ step = "off" /\ letsencrypt = NoCerts /\ nginx # "https"
      /\ UNCHANGED <<setup, day, attempt, letsencrypt, nginx, since, cenc, cmeta>>
  BY DEF BootVm, Boot, CertInv, LauncherIsOnItsWay, cacheVars
<1>2. i # None
  BY NoneIsNoImage
<1>3. hosts' \in setup.hosts /\ step' \in {"done", "restore"} /\ (step' = "restore" => hosts' # <<>>)
  BY DEF BootVm
<1>4. TypeOK'
  BY <1>1, <1>3 DEF CertInv, TypeOK
<1>5. LauncherIsOnItsWay'
  BY <1>1, <1>2, <1>3 DEF LauncherIsOnItsWay
<1>6. CachedCertsAreTheirs' /\ ServedCertIsOurs'
  BY <1>1 DEF CertInv, CachedCertsAreTheirs, ServedCertIsOurs
<1> QED
  BY <1>4, <1>5, <1>6 DEF CertInv

LEMMA StopKeepsCertInv ==
    ASSUME CertInv, StopVm
    PROVE  CertInv'
<1>1. /\ image' = None /\ hosts' = <<>> /\ step' = "off" /\ attempt' = 1 /\ letsencrypt' = NoCerts
      /\ nginx' = "off" /\ since' = 0 /\ UNCHANGED <<setup, day, cenc, cmeta>>
  BY DEF StopVm, Halt, Crash, PowerOff, LauncherOff, cacheVars
<1>2. TypeOK'
  BY <1>1, DaysAreNat, NoCertsIsEmpty DEF CertInv, TypeOK
<1>3. LauncherIsOnItsWay'
  BY <1>1 DEF LauncherIsOnItsWay
<1>4. CachedCertsAreTheirs' /\ ServedCertIsOurs'
  BY <1>1 DEF CertInv, CachedCertsAreTheirs, ServedCertIsOurs
<1> QED
  BY <1>2, <1>3, <1>4 DEF CertInv

LEMMA TickKeepsCertInv ==
    ASSUME CertInv, Tick
    PROVE  CertInv'
<1>1. /\ step \in {"off", "done"} /\ day' = day + 1 /\ day < MaxDay
      /\ UNCHANGED <<image, setup, hosts, step, attempt, letsencrypt, nginx, since, cenc, cmeta>>
  BY DEF Tick, dbVars, launcherVars, cacheVars
<1>2. day' \in 0..MaxDay
  BY <1>1, DaysAreNat DEF CertInv, TypeOK
<1>3. TypeOK'
  BY <1>1, <1>2 DEF CertInv, TypeOK
<1>4. LauncherIsOnItsWay'
  BY <1>1 DEF CertInv, LauncherIsOnItsWay
<1>5. CachedCertsAreTheirs' /\ ServedCertIsOurs'
  BY <1>1 DEF CertInv, CachedCertsAreTheirs, ServedCertIsOurs, FirstHost
<1> QED
  BY <1>3, <1>4, <1>5 DEF CertInv

\* What a tar that fails leaves of a directory was in it.
LEMMA ExtractedIsTheirs ==
    ASSUME NEW d \in CertDirs, NEW e \in Extracted(d), NEW h, NEW i, Theirs(d, h, i)
    PROVE  e \in CertDirs /\ Theirs(e, h, i)
<1>1. /\ e = [first |-> e.first, other |-> e.other]
      /\ e.first \in {None, Left(d.first)} /\ e.other \in {None, Left(d.other)}
  BY DEF Extracted
<1>2. ASSUME NEW c \in Certs \cup {None}
      PROVE  /\ Left(c) \in Certs \cup {None}
             /\ Left(c) # None => c # None /\ Left(c).by = c.by /\ Left(c).names = c.names
  BY DEF Left, Certs
<1>3. d.first \in Certs \cup {None} /\ d.other \in Certs \cup {None}
  BY DEF CertDirs
<1>4. e.first \in Certs \cup {None} /\ e.other \in Certs \cup {None}
  BY <1>1, <1>2, <1>3
<1>5. e \in CertDirs
  BY <1>1, <1>4 DEF CertDirs
<1>6. e.first # None => e.first.by = i /\ h \in e.first.names
  BY <1>1, <1>2, <1>3 DEF Theirs
<1>7. e.other # None => e.other.by = i /\ h \in e.other.names
  BY <1>1, <1>2, <1>3 DEF Theirs
<1> QED
  BY <1>5, <1>6, <1>7 DEF Theirs

\* A restored certificate was sealed by this image, and only one that is valid
\* takes the launcher past ACME.
LEMMA TryRestoreKeepsCertInv ==
    ASSUME CertInv, TryRestore
    PROVE  CertInv'
<1> DEFINE d == cenc[FirstHost].data
<1>1. /\ step = "restore" /\ hosts # <<>> /\ letsencrypt = NoCerts /\ image # None /\ nginx # "https"
      /\ UNCHANGED <<image, setup, day, hosts, attempt, nginx, since, cenc, cmeta>>
  BY DEF TryRestore, CertInv, LauncherIsOnItsWay, dbVars, cacheVars
<1>2. FirstHost \in Hosts
  BY <1>1, HostsAreNamed DEF CertInv
<1>3. ASSUME Decrypts(FirstHost) PROVE d \in CertDirs /\ Theirs(d, FirstHost, image) /\ MadeUpFor(d)
  <2>1. cenc[FirstHost] \in CacheFiles /\ cenc[FirstHost].by = image
    BY <1>2, <1>3 DEF CertInv, TypeOK, Decrypts
  <2>2. cenc[FirstHost] # None
    BY <1>3 DEF Decrypts
  <2> QED
    BY <1>2, <2>1, <2>2 DEF CacheFiles, CertInv, CachedCertsAreTheirs
<1>4. ASSUME Decrypts(FirstHost), Valid(d) PROVE Ready(d)
  BY <1>3, <1>4 DEF Valid, Ready
<1>5. \/ letsencrypt' = d /\ step' = "nginx" /\ Decrypts(FirstHost) /\ Ready(d)
      \/ letsencrypt' = NoCerts /\ step' = "acme"
      \/ letsencrypt' \in Extracted(d) /\ step' = "acme" /\ Decrypts(FirstHost)
  BY <1>1, <1>4 DEF TryRestore
<1> HIDE DEF d
<1>6. /\ letsencrypt' \in CertDirs /\ step' \in {"nginx", "acme"}
      /\ Theirs(letsencrypt', FirstHost, image)
      /\ step' = "nginx" => Ready(letsencrypt')
  <2>1. CASE letsencrypt' = NoCerts /\ step' = "acme"
    BY <2>1, NoCertsIsEmpty DEF Theirs
  <2>2. CASE letsencrypt' \in Extracted(d) /\ step' = "acme" /\ Decrypts(FirstHost)
    BY <1>3, <2>2, ExtractedIsTheirs
  <2>3. CASE letsencrypt' = d /\ step' = "nginx" /\ Decrypts(FirstHost) /\ Ready(d)
    BY <1>3, <2>3
  <2> QED
    BY <1>5, <2>1, <2>2, <2>3
<1>7. TypeOK'
  BY <1>1, <1>6 DEF CertInv, TypeOK
<1>8. LauncherIsOnItsWay'
  BY <1>1, <1>6 DEF LauncherIsOnItsWay, Ready, InTime
<1>9. CachedCertsAreTheirs' /\ ServedCertIsOurs'
  BY <1>1, <1>6 DEF CertInv, CachedCertsAreTheirs, Theirs, ServedCertIsOurs, FirstHost
<1> QED
  BY <1>7, <1>8, <1>9 DEF CertInv

\* Before the launcher has a certificate to serve.
LEMMA AcmeKeepsCertInv ==
    ASSUME CertInv, AcmeFails \/ AcmeServer
    PROVE  CertInv'
<1>1. /\ step = "acme" /\ hosts # <<>> /\ image # None
      /\ step' \in {"acme", "done"} /\ nginx' \in {"off", "acme"}
      /\ UNCHANGED <<image, setup, day, hosts, attempt, letsencrypt, since, cenc, cmeta>>
  BY DEF AcmeFails, AcmeServer, CertInv, LauncherIsOnItsWay, dbVars, cacheVars
<1>2. TypeOK'
  BY <1>1 DEF CertInv, TypeOK
<1>3. LauncherIsOnItsWay'
  BY <1>1 DEF LauncherIsOnItsWay
<1>4. CachedCertsAreTheirs' /\ ServedCertIsOurs'
  BY <1>1 DEF CertInv, CachedCertsAreTheirs, Theirs, FirstHost, ServedCertIsOurs
<1> QED
  BY <1>2, <1>3, <1>4 DEF CertInv

\* Wherever certbot puts its certificate, or finds one to keep, there is one in date
\* afterwards, and what lies in its way has another beside it.
LEMMA ObtainedIsReady ==
    ASSUME CertInv, image \in Images, hosts # <<>>, NEW l \in Obtained
    PROVE  l \in CertDirs /\ Ready(l) /\ Theirs(l, FirstHost, image)
<1> DEFINE new == [names |-> HostSet, by |-> image, expires |-> day + Life, whole |-> TRUE]
           first == letsencrypt.first
           other == letsencrypt.other
           Kept(c) == [c EXCEPT !.whole = TRUE]
<1>1. FirstHost \in Hosts /\ HostSet \subseteq Hosts /\ FirstHost \in HostSet
  BY HostsAreNamed DEF CertInv
<1>2. day \in 0..MaxDay
  BY DEF CertInv, TypeOK
<1>3. /\ new \in Certs /\ new # None /\ InTime(new, day) /\ new.whole
      /\ new.by = image /\ FirstHost \in new.names
  <2>1. day + Life \in 0..MaxDay + Life /\ (day + Life) - Buffer >= day
    BY <1>2, DaysAreNat
  <2>2. new \in Certs
    BY <1>1, <2>1 DEF Certs
  <2> QED
    BY <1>1, <2>1, <2>2, NoneIsNoCert DEF InTime
<1>4. /\ letsencrypt = [first |-> first, other |-> other]
      /\ first \in Certs \cup {None} /\ other \in Certs \cup {None}
  BY DEF CertInv, TypeOK, CertDirs
<1>5. Theirs(letsencrypt, FirstHost, image)
  BY <1>4, NoCertsIsEmpty DEF CertInv, CachedCertsAreTheirs, Theirs
<1>6. ASSUME NEW c \in Certs \cup {None}, InTime(c, day)
      PROVE  /\ Kept(c) \in Certs /\ InTime(Kept(c), day) /\ Kept(c).whole
             /\ Kept(c).by = c.by /\ Kept(c).names = c.names
  <2>1. c \in Certs
    BY <1>6 DEF InTime
  <2>2. /\ Kept(c) \in Certs /\ Kept(c).expires = c.expires /\ Kept(c).whole
        /\ Kept(c).by = c.by /\ Kept(c).names = c.names
    BY <2>1 DEF Certs
  <2> QED
    BY <1>6, <2>2, NoneIsNoCert DEF InTime
<1>7. \/ l = [first |-> new, other |-> other]
      \/ l = [first |-> first, other |-> new]
      \/ l = [first |-> Kept(first), other |-> other] /\ InTime(first, day)
      \/ l = [first |-> first, other |-> Kept(other)] /\ InTime(other, day)
  BY <1>4 DEF Obtained
<1> HIDE DEF new, first, other, Kept
<1>8. Theirs([first |-> first, other |-> other], FirstHost, image)
  BY <1>4, <1>5
<1>9. CASE l = [first |-> new, other |-> other]
  BY <1>3, <1>4, <1>8, <1>9 DEF CertDirs, Theirs, Ready, MadeUpFor
<1>10. CASE l = [first |-> first, other |-> new]
  BY <1>3, <1>4, <1>8, <1>10 DEF CertDirs, Theirs, Ready, MadeUpFor
<1>11. CASE l = [first |-> Kept(first), other |-> other] /\ InTime(first, day)
  <2>1. /\ Kept(first) \in Certs /\ InTime(Kept(first), day) /\ Kept(first).whole
        /\ Kept(first).by = image /\ FirstHost \in Kept(first).names
    BY <1>4, <1>6, <1>8, <1>11 DEF Theirs, InTime
  <2> QED
    BY <1>4, <1>8, <1>11, <2>1 DEF CertDirs, Theirs, Ready, MadeUpFor
<1>12. CASE l = [first |-> first, other |-> Kept(other)] /\ InTime(other, day)
  <2>1. /\ Kept(other) \in Certs /\ InTime(Kept(other), day)
        /\ Kept(other).by = image /\ FirstHost \in Kept(other).names
    BY <1>4, <1>6, <1>8, <1>12 DEF Theirs, InTime
  <2> QED
    BY <1>4, <1>8, <1>12, <2>1, NoneIsNoCert DEF CertDirs, Theirs, Ready, MadeUpFor
<1> QED
  BY <1>7, <1>9, <1>10, <1>11, <1>12

LEMMA CertbotKeepsCertInv ==
    ASSUME CertInv, image \in Images \cup {None}, Certbot
    PROVE  CertInv'
<1>1. /\ step = "acme" /\ nginx = "acme" /\ hosts # <<>> /\ image # None
      /\ UNCHANGED <<image, setup, day, hosts, nginx, since, cenc, cmeta>>
  BY DEF Certbot, CertInv, LauncherIsOnItsWay, dbVars, cacheVars
<1>2. attempt' \in 1..MaxAttempts
  <2>1. attempt \in 1..MaxAttempts
    BY DEF CertInv, TypeOK
  <2> QED
    BY <2>1, DaysAreNat DEF Certbot
<1>3. \/ letsencrypt' \in Obtained /\ step' \in {"enc", "nginx"}
      \/ letsencrypt' = letsencrypt /\ step' \in {"acme", "done"}
  BY <1>1 DEF Certbot
<1>4. /\ letsencrypt' \in CertDirs /\ Theirs(letsencrypt', FirstHost, image)
      /\ step' \in {"acme", "done", "enc", "nginx"}
      /\ step' \in {"enc", "nginx"} => Ready(letsencrypt')
  <2>1. CASE letsencrypt' \in Obtained /\ step' \in {"enc", "nginx"}
    BY <1>1, <2>1, ObtainedIsReady
  <2>2. CASE letsencrypt' = letsencrypt /\ step' \in {"acme", "done"}
    BY <2>2, NoCertsIsEmpty DEF CertInv, TypeOK, CachedCertsAreTheirs, Theirs
  <2> QED
    BY <1>3, <2>1, <2>2
<1>5. TypeOK'
  BY <1>1, <1>2, <1>4 DEF CertInv, TypeOK
<1>6. LauncherIsOnItsWay'
  BY <1>1, <1>4 DEF LauncherIsOnItsWay, Ready, InTime
<1>7. CachedCertsAreTheirs' /\ ServedCertIsOurs'
  BY <1>1, <1>4 DEF CertInv, CachedCertsAreTheirs, Theirs, ServedCertIsOurs, FirstHost
<1> QED
  BY <1>5, <1>6, <1>7 DEF CertInv

\* The writes of encrypt_certs: the whole directory is sealed.
LEMMA EncryptKeepsCertInv ==
    ASSUME CertInv, image \in Images \cup {None}, WriteCertEnc \/ WriteCertMac \/ WriteCertMeta
    PROVE  CertInv'
<1>1. /\ step \in {"enc", "mac", "meta"} /\ hosts # <<>> /\ image \in Images /\ nginx # "https"
      /\ image # None
      /\ Ready(letsencrypt) /\ step' \in {"mac", "meta", "nginx"}
      /\ UNCHANGED <<image, setup, day, hosts, attempt, letsencrypt, nginx, since>>
  BY DEF WriteCertEnc, WriteCertMac, WriteCertMeta, CertInv, LauncherIsOnItsWay, dbVars
<1>2. FirstHost \in Hosts
  BY <1>1, HostsAreNamed DEF CertInv
<1>3. /\ cenc \in [Hosts -> CacheFiles \cup {None}]
      /\ cmeta \in [Hosts -> {"none", "truncated", "written"}]
  BY DEF CertInv, TypeOK
<1>4. cmeta' \in [Hosts -> {"none", "truncated", "written"}]
  <2>1. CASE WriteCertMeta
    BY <1>2, <1>3, <2>1 DEF WriteCertMeta
  <2> QED
    BY <1>3, <2>1 DEF WriteCertEnc, WriteCertMac
<1>5. \/ cenc' = cenc /\ step' # "mac"
      \/ \E f \in CacheFiles : /\ cenc' = [cenc EXCEPT ![FirstHost] = f]
                               /\ Theirs(f.data, FirstHost, f.by) /\ MadeUpFor(f.data)
  <2>1. CASE WriteCertEnc
    <3> DEFINE f == [data |-> letsencrypt, by |-> image, intact |-> FALSE]
    <3>1. f \in CacheFiles /\ f.data = letsencrypt /\ f.by = image
      BY <1>1 DEF CertInv, TypeOK, CacheFiles
    <3>2. (cenc' = cenc /\ step' # "mac") \/ cenc' = [cenc EXCEPT ![FirstHost] = f]
      BY <2>1 DEF WriteCertEnc
    <3>3. Theirs(letsencrypt, FirstHost, image) /\ MadeUpFor(letsencrypt)
      BY <1>1, NoCertsIsEmpty DEF CertInv, CachedCertsAreTheirs, Theirs, Ready
    <3> HIDE DEF f
    <3> QED
      BY <3>1, <3>2, <3>3
  <2>2. CASE WriteCertMac
    <3> DEFINE old == cenc[FirstHost]
               f == [old EXCEPT !.intact = TRUE]
    <3>1. old \in CacheFiles
      BY <2>2 DEF WriteCertMac, CertInv, LauncherIsOnItsWay
    <3>2. Theirs(old.data, FirstHost, old.by) /\ MadeUpFor(old.data)
      BY <1>2, <3>1, NoneIsNoCert DEF CertInv, CachedCertsAreTheirs
    <3>3. f \in CacheFiles /\ f.data = old.data /\ f.by = old.by
      BY <3>1 DEF CacheFiles
    <3>4. (cenc' = cenc /\ step' # "mac") \/ cenc' = [cenc EXCEPT ![FirstHost] = f]
      BY <2>2, <3>1 DEF WriteCertMac
    <3> HIDE DEF f, old
    <3> QED
      BY <3>2, <3>3, <3>4
  <2>3. CASE WriteCertMeta
    BY <1>1, <2>3 DEF WriteCertMeta
  <2> QED
    BY <2>1, <2>2, <2>3
<1>6. /\ cenc' \in [Hosts -> CacheFiles \cup {None}]
      /\ \A h \in Hosts : cenc'[h] # None =>
             Theirs(cenc'[h].data, h, cenc'[h].by) /\ MadeUpFor(cenc'[h].data)
      /\ step' = "mac" => cenc'[FirstHost] \in CacheFiles
  <2>1. CASE cenc' = cenc /\ step' # "mac"
    BY <1>3, <2>1 DEF CertInv, CachedCertsAreTheirs
  <2>2. CASE ~(cenc' = cenc /\ step' # "mac")
    <3>1. PICK f \in CacheFiles : /\ cenc' = [cenc EXCEPT ![FirstHost] = f]
                                  /\ Theirs(f.data, FirstHost, f.by) /\ MadeUpFor(f.data)
      BY <1>5, <2>2
    <3> QED
      BY <1>2, <1>3, <3>1 DEF CertInv, CachedCertsAreTheirs
  <2> QED
    BY <2>1, <2>2
<1>7. TypeOK'
  BY <1>1, <1>4, <1>6 DEF CertInv, TypeOK
<1>8. LauncherIsOnItsWay'
  BY <1>1, <1>6 DEF LauncherIsOnItsWay, Ready, InTime, MadeUpFor, FirstHost
<1>9. CachedCertsAreTheirs' /\ ServedCertIsOurs'
  BY <1>1, <1>6 DEF CertInv, CachedCertsAreTheirs, Theirs, FirstHost, ServedCertIsOurs
<1> QED
  BY <1>7, <1>8, <1>9 DEF CertInv

\* nginx is pointed at HTTPS on the day that since records.
LEMMA NginxKeepsCertInv ==
    ASSUME CertInv, Nginx
    PROVE  CertInv'
<1>1. /\ step = "nginx" /\ step' = "done" /\ hosts # <<>> /\ image # None /\ Ready(letsencrypt)
      /\ nginx # "https"
      /\ UNCHANGED <<image, setup, day, hosts, attempt, letsencrypt, cenc, cmeta>>
  BY DEF Nginx, CertInv, LauncherIsOnItsWay, dbVars, cacheVars
<1>2. \/ nginx' = "https" /\ since' = day /\ letsencrypt.first # None
      \/ nginx' = nginx /\ since' = since
  BY DEF Nginx
<1>3. TypeOK'
  BY <1>1, <1>2 DEF CertInv, TypeOK
<1>4. LauncherIsOnItsWay'
  BY <1>1 DEF LauncherIsOnItsWay
<1>5. CachedCertsAreTheirs'
  BY <1>1 DEF CertInv, CachedCertsAreTheirs, Theirs, FirstHost
<1>6. ServedCertIsOurs'
  <2>1. letsencrypt.first # None => Theirs(letsencrypt, FirstHost, image)
    BY NoCertsIsEmpty DEF CertInv, CachedCertsAreTheirs
  <2> QED
    BY <1>1, <1>2, <2>1 DEF ServedCertIsOurs, Theirs, Ready, MadeUpFor, InTime, FirstHost
<1> QED
  BY <1>3, <1>4, <1>5, <1>6 DEF CertInv

LEMMA RemoveCertsKeepsCertInv ==
    ASSUME CertInv, NEW h \in Hosts, RemoveCerts(h)
    PROVE  CertInv'
<1>1. /\ step = "done" /\ UNCHANGED <<image, setup, day, hosts, step, attempt, letsencrypt, nginx, since>>
  BY DEF RemoveCerts, dbVars, launcherVars
<1>2. /\ cenc' \in [Hosts -> CacheFiles \cup {None}]
      /\ cmeta' \in [Hosts -> {"none", "truncated", "written"}]
      /\ \A g \in Hosts : cenc'[g] \in {cenc[g], None}
  BY DEF RemoveCerts, CertInv, TypeOK
<1>3. TypeOK'
  BY <1>1, <1>2 DEF CertInv, TypeOK
<1>4. LauncherIsOnItsWay'
  BY <1>1 DEF CertInv, LauncherIsOnItsWay
<1>5. CachedCertsAreTheirs' /\ ServedCertIsOurs'
  BY <1>1, <1>2 DEF CertInv, CachedCertsAreTheirs, ServedCertIsOurs, FirstHost
<1> QED
  BY <1>3, <1>4, <1>5 DEF CertInv

LEMMA NextKeepsCertInv ==
    ASSUME CertInv, image \in Images \cup {None}, Next
    PROVE  CertInv'
<1>1. CASE LauncherStep
  BY <1>1, TryRestoreKeepsCertInv, AcmeKeepsCertInv, CertbotKeepsCertInv, EncryptKeepsCertInv,
     NginxKeepsCertInv DEF LauncherStep
<1>2. CASE Databases
  BY <1>2, DatabasesKeepImage, CertStays
<1> QED
  BY <1>1, <1>2, BootKeepsCertInv, StopKeepsCertInv, TickKeepsCertInv, RemoveCertsKeepsCertInv DEF Next

-----------------------------------------------------------------------------
LEMMA VmNextInv == VmInv /\ [Next]_vars => VmInv'
<1> SUFFICES ASSUME VmInv, [Next]_vars PROVE VmInv'
  OBVIOUS
<1>1. PersistInv /\ CertInv /\ image \in Images \cup {None}
  BY DEF VmInv, CertInv, PersistInv, DbTypeOK
<1>2. CASE Next
  BY <1>1, <1>2, NextKeepsPersistInv, NextKeepsCertInv DEF VmInv, CertInv
<1>3. CASE UNCHANGED vars
  BY <1>1, <1>3, PersistStays, CertStays DEF vars, dbVars, VmInv, CertInv
<1> QED
  BY <1>2, <1>3

\* What the scripts leave on the disk and in memory, whichever image boots, wherever
\* the power goes, whenever a disk is full.
THEOREM VmInvariance == Spec => []VmInv
<1>1. Init => VmInv
  BY PersistInitInv, CertInitInv DEF Init, VmInv, CertInv
<1> QED
  BY <1>1, VmNextInv, PTL DEF Spec

\* No kettle runs on a database made of an unfinished backup.
THEOREM GarbageIsNeverRestored == Spec => []NoGarbageRestored
<1>1. VmInv => NoGarbageRestored
  BY DEF VmInv, PersistInv
<1> QED
  BY <1>1, VmInvariance, PTL

\* nginx serves a certificate that this image obtained, in good time unless another
\* lies beside it.
THEOREM ServedCertsAreOurs == Spec => []ServedCertIsOurs
<1>1. VmInv => ServedCertIsOurs
  BY DEF VmInv
<1> QED
  BY <1>1, VmInvariance, PTL
=============================================================================
