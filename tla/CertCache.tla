----------------------------- MODULE CertCache -----------------------------
(***************************************************************************)
(* The TLS certificate of a VM (images/kettle-vm): certbot-launcher.sh,    *)
(* certbot-persist.sh and their unit, beside the databases of DbPersist,   *)
(* with which they share the sealing key, the disk, boots and crashes.     *)
(*                                                                         *)
(* certbot-launcher is a oneshot: it restores the cached certificate, or   *)
(* obtains one by ACME and caches it, and points nginx at it.  The cache   *)
(* is a file per first hostname; unlike the databases' it is not kept per  *)
(* image, so images that take turns on a disk overwrite each other's.      *)
(*                                                                         *)
(* /etc/letsencrypt is in memory.  It is known by the certificates in it:  *)
(* the one in live/<first hostname>, where nginx is pointed, and one in a  *)
(* directory that certbot named otherwise.  A certificate is known by its  *)
(* names, the image that obtained it, the day it expires, and whether all  *)
(* of its files are there or it is what a failing tar left of it.          *)
(***************************************************************************)
EXTENDS DbPersist, Integers, Sequences

CONSTANTS
    Hosts,        \* hostnames
    Setups,       \* bound: what one behaviour does
    MaxAttempts,  \* max_attempts of obtain_certificate
    Life,         \* days a certificate lives
    Buffer,       \* days that validate_certs wants it to have left
    MaxDay        \* bound: days

ASSUME SetupsAssumption ==
    \A s \in Setups : s.writes \in BOOLEAN /\ s.hosts \subseteq Seq(Hosts)
ASSUME DaysAssumption ==
    /\ {Life, Buffer, MaxDay} \subseteq Nat /\ Buffer <= Life
    /\ MaxAttempts \in Nat \ {0}

VARIABLES
    setup,        \* whether kettle writes, and the hostnames a boot may find
    day,
    hosts,        \* HOSTNAME_CONFIG of this boot, parsed
    step,         \* how far certbot-launcher has come
    attempt,      \* of certbot, from 1
    letsencrypt,  \* /etc/letsencrypt
    nginx,        \* what nginx serves; "https": with letsencrypt.first
    since,        \* the day it began to
    cenc, cmeta   \* per first hostname, <hash>.enc and <hash>.meta

launcherVars == <<hosts, step, attempt, letsencrypt, nginx, since>>
cacheVars == <<cenc, cmeta>>
certVars == <<setup, day, launcherVars, cacheVars>>
vars == <<dbVars, certVars>>

Certs == [names : SUBSET Hosts, by : Images, expires : 0..MaxDay + Life, whole : BOOLEAN]
CertDirs == [first : Certs \cup {None}, other : Certs \cup {None}]
CacheFiles == [data : CertDirs, by : Images, intact : BOOLEAN]

NoCerts == [first |-> None, other |-> None]

ASSUME NoneIsNoCert == None \notin Certs \cup CacheFiles

TypeOK ==
    /\ setup \in Setups /\ day \in 0..MaxDay
    /\ hosts \in {<<>>} \cup setup.hosts
    /\ step \in {"off", "restore", "acme", "enc", "mac", "meta", "nginx", "done"}
    /\ attempt \in 1..MaxAttempts
    /\ letsencrypt \in CertDirs
    /\ nginx \in {"off", "acme", "https"} /\ since \in 0..MaxDay
    /\ cenc \in [Hosts -> CacheFiles \cup {None}]
    /\ cmeta \in [Hosts -> {"none", "truncated", "written"}]

LauncherOff ==
    /\ hosts' = <<>> /\ step' = "off" /\ attempt' = 1
    /\ letsencrypt' = NoCerts /\ nginx' = "off" /\ since' = 0

Init ==
    /\ DbInit
    /\ setup \in Setups /\ day = 0
    /\ hosts = <<>> /\ step = "off" /\ attempt = 1
    /\ letsencrypt = NoCerts /\ nginx = "off" /\ since = 0
    /\ cenc = [h \in Hosts |-> None]
    /\ cmeta = [h \in Hosts |-> "none"]

FirstHost == hosts[1]
HostSet == {hosts[i] : i \in DOMAIN hosts}

-----------------------------------------------------------------------------
(***************************************************************************)
(* The VM.                                                                 *)
(***************************************************************************)

\* Without a hostname certbot-launcher has nothing to do.
BootVm(i, s) ==
    /\ Boot(i, s)
    /\ \E h \in setup.hosts :
          /\ hosts' = h
          /\ step' = IF h = <<>> THEN "done" ELSE "restore"
    /\ UNCHANGED <<setup, day, attempt, letsencrypt, nginx, since, cacheVars>>

\* The launcher is cut off wherever it is.
StopVm ==
    /\ Halt \/ Crash
    /\ LauncherOff
    /\ UNCHANGED <<setup, day, cacheVars>>

Databases ==
    /\ DbStep \/ (setup.writes /\ \E d \in Dbs : Write(d))
    /\ UNCHANGED certVars

\* A day is long against the minutes that the launcher takes.
Tick ==
    /\ step \in {"off", "done"}
    /\ day < MaxDay
    /\ day' = day + 1
    /\ UNCHANGED <<dbVars, setup, launcherVars, cacheVars>>

-----------------------------------------------------------------------------
(***************************************************************************)
(* certbot-launcher.                                                       *)
(***************************************************************************)

\* Mutant: a sealing key that does not depend on the image.
Decrypts_SharedKey(h) ==
    /\ sealed /\ cenc[h] # None
    /\ cmeta[h] # "truncated"
    /\ cenc[h].intact

\* decrypt_certs gets as far as the tar file: the hostname in the metadata, if
\* there are any, matches, which truncated ones do not, and the HMAC verifies
\* under this image's key.
Decrypts(h) ==
    /\ sealed /\ cenc[h] # None
    /\ cmeta[h] # "truncated"
    /\ cenc[h].intact /\ cenc[h].by = image

\* The days validate_certs wants are left to a certificate on a day.
InTime(c, t) == c # None /\ c.expires - Buffer >= t

\* validate_certs: in its directory, with days to spare, for the first hostname.
Valid(d) == InTime(d.first, day) /\ FirstHost \in d.first.names

\* What a tar that fails may have extracted of a directory.
Left(c) == IF c = None THEN None ELSE [c EXCEPT !.whole = FALSE]
Extracted(d) == [first : {None, Left(d.first)}, other : {None, Left(d.other)}]

\* try_restore_certs. A certificate that is not valid is removed, and one of which
\* files are missing is not valid; what a tar that fails has extracted is neither
\* validated nor removed.
TryRestore ==
    /\ step = "restore"
    /\ LET d == cenc[FirstHost].data IN
       \/ /\ Decrypts(FirstHost) /\ Valid(d)
          /\ letsencrypt' = d /\ step' = "nginx"
       \/ /\ Decrypts(FirstHost) /\ (Valid(d) => ~d.first.whole)
          /\ letsencrypt' = NoCerts /\ step' = "acme"
       \/ /\ Decrypts(FirstHost)
          /\ letsencrypt' \in Extracted(d) /\ step' = "acme"
       \/ /\ ~Decrypts(FirstHost)
          /\ UNCHANGED letsencrypt /\ step' = "acme"
    /\ UNCHANGED <<dbVars, setup, day, hosts, attempt, nginx, since, cacheVars>>

\* nginx cannot be set up for the challenge: the launcher fails.
AcmeFails ==
    /\ step = "acme" /\ nginx = "off"
    /\ step' = "done"
    /\ UNCHANGED <<dbVars, setup, day, hosts, attempt, letsencrypt, nginx, since, cacheVars>>

\* nginx serves the challenge.
AcmeServer ==
    /\ step = "acme" /\ nginx = "off"
    /\ nginx' = "acme"
    /\ UNCHANGED <<dbVars, setup, day, hosts, step, attempt, letsencrypt, since, cacheVars>>

\* What certbot leaves on success: a certificate for all hostnames, in the
\* directory of the first one or, when files are in its way, in one of another
\* name beside them; or one that was there, complete after all, if it is for the
\* same hostnames and not expiring (--keep-until-expiring).
Obtained ==
    LET new == [names |-> HostSet, by |-> image, expires |-> day + Life, whole |-> TRUE]
        Keeps(c) == InTime(c, day) /\ c.names = HostSet
    IN  {[letsencrypt EXCEPT !.first = new]}
        \cup {[letsencrypt EXCEPT !.other = new] : l \in {letsencrypt} \ {NoCerts}}
        \cup {[l EXCEPT !.first.whole = TRUE] : l \in {k \in {letsencrypt} : Keeps(k.first)}}
        \cup {[l EXCEPT !.other.whole = TRUE] : l \in {k \in {letsencrypt} : Keeps(k.other)}}

\* obtain_certificate, one attempt. After the last one the VM goes without HTTPS.
Certbot ==
    /\ step = "acme" /\ nginx = "acme"
    /\ \/ /\ letsencrypt' \in Obtained
          /\ step' = IF sealed THEN "enc" ELSE "nginx"
          /\ UNCHANGED attempt
       \/ /\ attempt < MaxAttempts
          /\ attempt' = attempt + 1
          /\ UNCHANGED <<letsencrypt, step>>
       \/ /\ attempt = MaxAttempts
          /\ step' = "done"
          /\ UNCHANGED <<letsencrypt, attempt>>
    /\ UNCHANGED <<dbVars, setup, day, hosts, nginx, since, cacheVars>>

\* encrypt_certs: the file is written over the old one in place, then its HMAC
\* and the metadata. Whatever fails ends it, and the launcher goes on.
WriteCertEnc ==
    /\ step = "enc"
    /\ \/ /\ cenc' = [cenc EXCEPT ![FirstHost] =
                         [data |-> letsencrypt, by |-> image, intact |-> FALSE]]
          /\ step' \in {"mac", "nginx"}
       \/ UNCHANGED cenc /\ step' = "nginx"
    /\ UNCHANGED <<dbVars, setup, day, hosts, attempt, letsencrypt, nginx, since, cmeta>>

WriteCertMac ==
    /\ step = "mac"
    /\ \/ cenc' = [cenc EXCEPT ![FirstHost].intact = TRUE] /\ step' = "meta"
       \/ step' = "nginx" /\ UNCHANGED cenc
    /\ UNCHANGED <<dbVars, setup, day, hosts, attempt, letsencrypt, nginx, since, cmeta>>

\* The shell truncates the metadata before it writes them.
WriteCertMeta ==
    /\ step = "meta"
    /\ \/ /\ cmeta[FirstHost] # "truncated"
          /\ cmeta' = [cmeta EXCEPT ![FirstHost] = "truncated"] /\ UNCHANGED step
       \/ /\ cmeta[FirstHost] = "truncated"
          /\ cmeta' = [cmeta EXCEPT ![FirstHost] = "written"] /\ step' = "nginx"
       \/ /\ cmeta[FirstHost] = "truncated"
          /\ step' = "nginx" /\ UNCHANGED cmeta
    /\ UNCHANGED <<dbVars, setup, day, hosts, attempt, letsencrypt, nginx, since, cenc>>

\* create_production_nginx_config and reload_nginx: nginx is pointed at the
\* directory of the first hostname, wherever certbot put its certificate, and
\* nginx -t wants the files there. Whatever fails, the launcher ends well.
Nginx ==
    /\ step = "nginx"
    /\ \/ /\ letsencrypt.first # None
          /\ nginx' = "https" /\ since' = day
       \/ UNCHANGED <<nginx, since>>
    /\ step' = "done"
    /\ UNCHANGED <<dbVars, setup, day, hosts, attempt, letsencrypt, cacheVars>>

\* certbot-persist remove.
RemoveCerts(h) ==
    /\ image # None /\ step = "done"
    /\ cenc[h] # None
    /\ cenc' = [cenc EXCEPT ![h] = None]
    /\ cmeta' = [cmeta EXCEPT ![h] = "none"]
    /\ UNCHANGED <<dbVars, setup, day, launcherVars>>

-----------------------------------------------------------------------------
LauncherStep ==
    \/ TryRestore \/ AcmeFails \/ AcmeServer \/ Certbot
    \/ WriteCertEnc \/ WriteCertMac \/ WriteCertMeta \/ Nginx

Next ==
    \/ \E i \in Images, s \in BOOLEAN : BootVm(i, s)
    \/ StopVm \/ Databases \/ Tick \/ LauncherStep
    \/ \E h \in Hosts : RemoveCerts(h)

Spec == Init /\ [][Next]_vars

\* systemd runs the launchers, and certbot ends.
FairSpec == Spec /\ DbFairness /\ WF_vars(LauncherStep)

-----------------------------------------------------------------------------
(***************************************************************************)
(* Properties.                                                             *)
(***************************************************************************)
\* nginx serves HTTPS only with a certificate that this image obtained for the
\* first hostname, complete and with days left when it was put in service, unless
\* a tar that failed left it in certbot's way: one that may be incomplete is served
\* only beside another, and one that is expiring only beside one that is not --
\* though images overwrite each other's cache file, crashes leave it without HMAC
\* or with the metadata of another, and the VM was off for days.
ServedCertIsOurs ==
    nginx = "https" =>
        /\ letsencrypt.first.by = image
        /\ FirstHost \in letsencrypt.first.names
        /\ letsencrypt.first.whole \/ letsencrypt.other # None
        /\ InTime(letsencrypt.first, since) \/ InTime(letsencrypt.other, since)

\* What may be missing of the first hostname's certificate, certbot made up for.
MadeUpFor(d) == d.first # None => d.first.whole \/ d.other # None

\* What nginx may be pointed at today.
Ready(d) == (InTime(d.first, day) \/ InTime(d.other, day)) /\ MadeUpFor(d)

\* The launcher runs while the VM does; from certbot's success, or a restored
\* certificate, to its end there is one in date, and nginx serves HTTPS only from
\* its end on.
LauncherIsOnItsWay ==
    /\ image = None <=> step = "off"
    /\ step \in {"restore", "acme", "enc", "mac", "meta", "nginx"} => hosts # <<>>
    /\ step \in {"enc", "mac", "meta", "nginx"} => Ready(letsencrypt)
    /\ step \in {"off", "restore"} => letsencrypt = NoCerts
    /\ step = "mac" => cenc[FirstHost] \in CacheFiles
    /\ nginx = "https" => step = "done"

\* A directory holds what image i obtained for first hostname h.
Theirs(d, h, i) ==
    /\ d.first # None => d.first.by = i /\ h \in d.first.names
    /\ d.other # None => d.other.by = i /\ h \in d.other.names

\* A cached directory is from whom the key that seals it says, for the hostname it
\* is cached under.
CachedCertsAreTheirs ==
    /\ letsencrypt # NoCerts => hosts # <<>> /\ Theirs(letsencrypt, FirstHost, image)
    /\ \A h \in Hosts : cenc[h] # None =>
           Theirs(cenc[h].data, h, cenc[h].by) /\ MadeUpFor(cenc[h].data)

\* Databases and certificates, on disk and in memory, are what the scripts can have
\* left there under this image.
VmInv ==
    /\ TypeOK
    /\ PersistInv
    /\ LauncherIsOnItsWay
    /\ CachedCertsAreTheirs
    /\ ServedCertIsOurs

\* Nothing that a crash, a full disk or another image left in the caches of the
\* disk keeps a VM from starting its kettle or certbot-launcher from its end.
CachesNeverBlockStart ==
    /\ BackupNeverBlocksStart
    /\ step = "restore" ~> (step = "done" \/ image = None)

\* "Obtain a single SAN certificate for all specified hostnames" (CONFIG.md). Not
\* so when the hostnames change and the first one stays: validate_certs asks only
\* for the first; not part of a run.
ServedCertCoversHosts == nginx = "https" => HostSet \subseteq letsencrypt.first.names

\* HTTPS goes on while the VM runs: not so, as nothing renews a certificate; not
\* part of a run.
ServedCertIsCurrent == nginx = "https" => letsencrypt.first.expires > day

\* What is served is complete and in date: not so after a tar that failed, when
\* certbot's certificate lies elsewhere (certbot-launcher.sh:295, 416); not part of
\* a run.
ServedCertIsValid ==
    nginx = "https" => letsencrypt.first.whole /\ InTime(letsencrypt.first, since)
=============================================================================
