----------------------------- MODULE Collateral -----------------------------
(***************************************************************************)
(* packages/qvl: what a quote is compared with, as operators -- the TCB    *)
(* levels of tcb.ts, the measurement items of verifyMeasurements and the   *)
(* revocation lists of parseCrlRevokedSerials.                             *)
(*                                                                         *)
(* A TCB level asks for security version numbers (SVNs) of some            *)
(* components: a function on the components it lists.  An SGX level that   *)
(* lists them in the v2 keys or in the v3 array is the same function here. *)
(* The SVNs of a platform are a function on all components.                *)
(***************************************************************************)
EXTENDS Integers, Sequences

Unset == -1   \* a number that is not given

-----------------------------------------------------------------------------
(***************************************************************************)
(* tcb.ts.                                                                 *)
(***************************************************************************)

\* Mutant: a component has to be at the level, not at least at it.
Reaches_Exactly(svn, required) == \A c \in DOMAIN required : svn[c] = required[c]

\* No component of a platform is below what a level asks of it.
Reaches(svn, required) == \A c \in DOMAIN required : svn[c] >= required[c]

Meets(level, svn, pceSvn, isTdx) ==
    /\ level.pceSvn # Unset => pceSvn >= level.pceSvn
    /\ Reaches(svn, IF isTdx THEN level.tdx ELSE level.sgx)

\* Position i is the first level that a platform meets.
FirstMet(levels, svn, pceSvn, isTdx, i) ==
    /\ i \in DOMAIN levels
    /\ Meets(levels[i], svn, pceSvn, isTdx)
    /\ \A j \in 1..(i - 1) : ~Meets(levels[j], svn, pceSvn, isTdx)

getTcbStatus(levels, svn, pceSvn, isTdx) ==
    IF \E i \in DOMAIN levels : FirstMet(levels, svn, pceSvn, isTdx, i)
    THEN levels[CHOOSE i \in DOMAIN levels : FirstMet(levels, svn, pceSvn, isTdx, i)].status
    ELSE "OutOfDate"

GoodStatus == {"UpToDate", "ConfigurationNeeded"}

\* Both ends of the window belong to it.
isTcbInfoFresh(info) == info.issueDate <= info.now /\ info.now <= info.nextUpdate

\* verifyTcb throws when Intel's service does not answer with success.
verifyTcb(info, svn, pceSvn, isTdx) ==
    /\ info.ok
    /\ isTcbInfoFresh(info)
    /\ getTcbStatus(info.levels, svn, pceSvn, isTdx) \in GoodStatus

-----------------------------------------------------------------------------
(***************************************************************************)
(* verifyTdxMeasurements, verifySgxMeasurements, verifySevSnpMeasurements. *)
(***************************************************************************)

\* An item asks for the values of some fields; a verifier of the caller's own
\* says yes to some bodies.
Matches(item, body) ==
    \/ item.custom /\ body \in item.accepts
    \/ ~item.custom /\ \A f \in DOMAIN item.fields : body[f] = item.fields[f]

\* Any item will do. An empty list, unlike no list, is met by nothing.
verifyMeasurements(items, body) == \E item \in items : Matches(item, body)

-----------------------------------------------------------------------------
(***************************************************************************)
(* parseCrlRevokedSerials.                                                 *)
(***************************************************************************)

\* Kinds of entries: "serial"; "bare", a SEQUENCE that does not start with an
\* INTEGER; "other", no SEQUENCE, where reading stops; "torn", out of bounds.
CrlEntries(Serials) == [kind : {"serial", "bare", "other", "torn"}, serial : Serials]

\* Entries that are reached before one that ends the reading.
EntriesRead(crl) ==
    {i \in DOMAIN crl.entries : \A j \in 1..i : crl.entries[j].kind # "other"}

\* A list that is torn, in its header or in an entry that is read, lists nothing.
parseCrlRevokedSerials(crl) ==
    {crl.entries[i].serial : i \in
        {j \in EntriesRead(crl) :
            /\ crl.header
            /\ crl.entries[j].kind = "serial"
            /\ \A k \in EntriesRead(crl) : crl.entries[k].kind # "torn"}}

Revoked(crls) == UNION {parseCrlRevokedSerials(crl) : crl \in crls}
=============================================================================
