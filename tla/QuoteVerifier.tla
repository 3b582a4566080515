--------------------------- MODULE QuoteVerifier ---------------------------
(***************************************************************************)
(* packages/qvl: verifyTdx, verifySgx and verifySevSnp, one call each.     *)
(*                                                                         *)
(* A certificate is what the verifiers look at: names, serial, keys, the   *)
(* BasicConstraints, the PCK's own SVN and whether the time of the check   *)
(* is in its validity window.  A signature is the key it was made with.    *)
(* Comparing SHA-256 fingerprints is comparing certificates.               *)
(*                                                                         *)
(* For Intel quotes the certificates come in any order and any number, and *)
(* the verifier has to find the leaf and the way up to the root; for       *)
(* SEV-SNP the caller hands over VCEK, ASK and ARK, in that order here.    *)
(***************************************************************************)
EXTENDS Collateral, FiniteSets

CONSTANTS
    Certs,    \* certificates that may be presented
    Pinned,   \* pinnedRootCerts, pinnedArkCerts
    Calls,    \* calls of the verifiers: what they are given
    Components,  \* components a TCB is made of, sixteen in the code
    TopSvn    \* largest security version number, 255 in the code

NoLimit == -1  \* no pathLenConstraint

ASSUME CertsAssumption ==
    /\ Certs \subseteq [name : STRING, subject : STRING, issuer : STRING, serial : Nat,
                        key : STRING, signer : STRING,
                        ca : {"absent", "no", "yes"}, pathLen : Nat \cup {NoLimit},
                        current : BOOLEAN, pceSvn : 0..TopSvn \cup {Unset}]
    /\ Pinned \subseteq Certs
    /\ TopSvn \in Nat

Svns == 0..TopSvn
Levels == [status : STRING, pceSvn : Svns \cup {Unset},
           sgx : UNION {[C -> Svns] : C \in SUBSET Components},
           tdx : UNION {[C -> Svns] : C \in SUBSET Components}]

ASSUME CallsAssumption ==
    \A c \in Calls :
        /\ c.tee \in {"tdx", "sgx", "sevsnp"}
        /\ c.embedded \in Seq(Certs)
        /\ c.config.extraCertdata \in Seq(Certs)
        /\ c.quote.svn \in [Components -> Svns]
        /\ c.quote.pceSvn \in Svns
        /\ c.config.tcbInfo.levels \in Seq(Levels)
        /\ {c.config.tcbInfo.now, c.config.tcbInfo.issueDate, c.config.tcbInfo.nextUpdate} \subseteq Int
        /\ \A crl \in c.config.crls : crl.entries \in Seq(CrlEntries(Nat))

VARIABLES
    call,      \* tee: which verifier; embedded: certificates in the quote, or for
               \* SEV-SNP <<vcek, ask, ark>>; quote: the quote or report; config:
               \* the caller's configuration
    chain,     \* verifyPCKChain: positions of the chain's certificates, leaf first
    pc,        \* "leaf", "walk", "judge", "done"
    verdict    \* "accepted", or why not

vars == <<call, chain, pc, verdict>>

tee == call.tee
embedded == call.embedded
quote == call.quote
config == call.config

\* "Use fallback certs, only if certdata is not provided."
Given == IF embedded # <<>> THEN embedded ELSE config.extraCertdata

TypeOK ==
    /\ tee \in {"tdx", "sgx", "sevsnp"}
    /\ chain \in Seq(DOMAIN Given)
    /\ pc \in {"leaf", "walk", "judge", "done"}
    /\ verdict \in {"none", "accepted", "policy", "expired", "revoked", "invalid", "root",
                    "header", "report_signature", "binding", "signature", "fields",
                    "tcb", "measurements"}

Init ==
    /\ call \in Calls
    /\ chain = <<>>
    /\ pc = IF tee = "sevsnp" THEN "judge" ELSE "leaf"
    /\ verdict = "none"

Conclude(v) ==
    /\ pc' = "done"
    /\ verdict' = v
    /\ UNCHANGED <<call, chain>>

First(S) == CHOOSE i \in S : \A j \in S : i <= j

\* The first check that does not pass; a check is a pair of a verdict and a test.
FirstFailing(checks) ==
    LET failing == {i \in DOMAIN checks : ~checks[i][2]} IN
    IF failing = {} THEN "accepted"
    ELSE checks[First(failing)][1]

-----------------------------------------------------------------------------
(***************************************************************************)
(* verifyPCKChain.                                                         *)
(***************************************************************************)
\* Positions of the certificates that issued the one at i, by name.
IssuersOf(i) == {j \in DOMAIN Given : Given[j].subject = Given[i].issuer}

Leaves == {i \in DOMAIN Given : \A j \in DOMAIN Given : i \notin IssuersOf(j)}

\* Mutant: the leaf is expected in front.
LeafIndex_Front == 1

\* The first certificate that is no issuer, or else the first one.
LeafIndex == IF Leaves = {} THEN 1 ELSE First(Leaves)

\* Bound: certificates a walk collects before it is left where it is. The loop of
\* the code has none; a walk this long has come to some certificate twice and goes
\* round for ever.
MaxWalk == Len(Given) + 1

FindLeaf ==
    /\ pc = "leaf"
    /\ \/ /\ Given # <<>>
          /\ chain' = <<LeafIndex>>
          /\ pc' = "walk"
          /\ UNCHANGED <<call, verdict>>
       \/ /\ Given = <<>>
          /\ Conclude("invalid")

\* Mutant: the walk ends only at a certificate that issued itself.
Walk_ToSelfIssued ==
    /\ pc = "walk" /\ Len(chain) < MaxWalk
    /\ LET current == chain[Len(chain)] IN
       /\ IssuersOf(current) # {}
       /\ \/ /\ First(IssuersOf(current)) = current
             /\ pc' = "judge"
             /\ UNCHANGED chain
          \/ /\ First(IssuersOf(current)) # current
             /\ chain' = Append(chain, First(IssuersOf(current)))
             /\ UNCHANGED pc
    /\ UNCHANGED <<call, verdict>>

\* One turn of the loop: the first certificate with the issuer's name is next.
Walk ==
    /\ pc = "walk" /\ Len(chain) < MaxWalk
    /\ LET current == chain[Len(chain)]
           parents == IssuersOf(current)
       IN
       IF parents = {} \/ First(parents) = current
       THEN pc' = "judge" /\ UNCHANGED chain
       ELSE chain' = Append(chain, First(parents)) /\ UNCHANGED pc
    /\ UNCHANGED <<call, verdict>>

Verifies(child, parent) == child.signer = parent.key

\* CA certificates on a path below position i.
CAsBelow(path, i) == {j \in 1..(i - 1) : path[j].ca = "yes"}

\* Mutant: names and constraints are checked, signatures are not.
PathIsSound_NamesOnly(path) ==
    /\ path[1].ca # "yes"
    /\ \A i \in 2..Len(path) :
          /\ path[i].ca = "yes"
          /\ path[i].pathLen # NoLimit => Cardinality(CAsBelow(path, i)) <= path[i].pathLen

\* Signatures up to a self-issued end, basicConstraints and pathLenConstraint.
PathIsSound(path) ==
    LET n == Len(path) IN
    /\ path[n].subject = path[n].issuer => Verifies(path[n], path[n])
    /\ \A i \in 1..(n - 1) : Verifies(path[i], path[i + 1])
    /\ path[1].ca # "yes"
    /\ \A i \in 2..n :
          /\ path[i].ca = "yes"
          /\ path[i].pathLen # NoLimit => Cardinality(CAsBelow(path, i)) <= path[i].pathLen

Path == [i \in DOMAIN chain |-> Given[chain[i]]]

AllCurrent(path) == \A i \in DOMAIN path : path[i].current
\* By serial number alone, whoever issued the certificate.
NoneRevoked(path) == \A i \in DOMAIN path : path[i].serial \notin Revoked(config.crls)

-----------------------------------------------------------------------------
(***************************************************************************)
(* verifyTdx and verifySgx, after the walk.                                *)
(***************************************************************************)

\* The QE report's signature is checked with the leaf that verifyPCKChain finds
\* when called again without a time and without CRLs: the same one, as the path
\* has already been found sound.
QeReportSigned == quote.signer = Path[1].key

\* report_data of the QE report is the digest of the attestation key.
QeReportBound == quote.bound

\* The attestation key signed header and body.
QuoteSigned == quote.signed

Measured == config.measured => verifyMeasurements(config.items, quote.body)

\* The PCK's own SVN, except for an SGX quote that names its PCK by an id.
PceSvn == IF tee = "sgx" /\ quote.certType = 1 THEN quote.pceSvn ELSE Path[1].pceSvn

TcbAccepted ==
    config.checkTcb => verifyTcb(config.tcbInfo, quote.svn, PceSvn, tee = "tdx")

IntelChecks(certTypes) ==
    << <<"expired",          AllCurrent(Path)>>,
       <<"invalid",          PathIsSound(Path)>>,
       <<"revoked",          NoneRevoked(Path)>>,
       <<"root",             Path[Len(Path)] \in Pinned>>,
       <<"header",           quote.header /\ quote.certType \in certTypes>>,
       <<"report_signature", QeReportSigned>>,
       <<"binding",          QeReportBound>>,
       <<"signature",        QuoteSigned>>,
       <<"fields",           Path[1].pceSvn # Unset>>,
       <<"tcb",              TcbAccepted>>,
       <<"measurements",     Measured>> >>

JudgeTdx ==
    /\ pc = "judge" /\ tee = "tdx"
    /\ Conclude(FirstFailing(IntelChecks({5})))

JudgeSgx ==
    /\ pc = "judge" /\ tee = "sgx"
    /\ Conclude(FirstFailing(IntelChecks({1, 5})))

-----------------------------------------------------------------------------
(***************************************************************************)
(* verifySevSnp.                                                           *)
(***************************************************************************)

\* Mutant: the ARK is trusted for being self-signed.
SevChain_AnyRoot(path) ==
    << <<"expired", AllCurrent(path)>>,
       <<"invalid", /\ \A i \in 1..(Len(path) - 1) : Verifies(path[i], path[i + 1])
                    /\ \A i \in 2..Len(path) : path[i].ca = "yes">>,
       <<"revoked", NoneRevoked(path)>> >>

\* verifySevSnpCertChain and the comparison with the pinned ARKs. It applies when
\* an ASK is given; an ARK is looked at only if one is given.
SevChain(path) ==
    << <<"invalid", \A i \in 1..(Len(path) - 1) : path[i].issuer = path[i + 1].subject>>,
       <<"expired", AllCurrent(path)>>,
       <<"invalid", /\ \A i \in 1..(Len(path) - 1) : Verifies(path[i], path[i + 1])
                    /\ Len(path) = 3 => Verifies(path[3], path[3])
                    /\ \A i \in 2..Len(path) : path[i].ca = "yes">>,
       <<"revoked", NoneRevoked(path)>>,
       <<"root",    Len(path) = 3 /\ Pinned # {} => path[3] \in Pinned>> >>

\* The signature of the report, with an algorithm that is supported.
SevReportSigned(key) == quote.signer = key /\ quote.signed

\* Parsing, then the debug, VMPL and SMT policies.
SevPolicy ==
    << <<"header", quote.header>>,
       <<"policy", /\ quote.debug => config.allowDebug
                   /\ config.maxVmpl # Unset => quote.vmpl <= config.maxVmpl
                   /\ config.enforceSmt /\ quote.smtOn => quote.smtAllowed>> >>

\* Without a VCEK (or a bare key) no signature is checked. The TCB is judged by a
\* callback of the caller's.
SevReport ==
    << <<"report_signature", embedded # <<>> => SevReportSigned(embedded[1].key)>>,
       <<"measurements",     Measured>>,
       <<"tcb",              config.checkTcb => config.callerSaysTcb>> >>

SevChecks ==
    SevPolicy \o (IF Len(embedded) > 1 THEN SevChain(embedded) ELSE <<>>) \o SevReport

JudgeSevSnp ==
    /\ pc = "judge" /\ tee = "sevsnp"
    /\ Conclude(FirstFailing(SevChecks))

-----------------------------------------------------------------------------
Next == FindLeaf \/ Walk \/ JudgeTdx \/ JudgeSgx \/ JudgeSevSnp

Spec == Init /\ [][Next]_vars

\* A call runs to its end: its promises are those of WebCrypto.
FairSpec == Spec /\ WF_vars(Next)

-----------------------------------------------------------------------------
(***************************************************************************)
(* Properties.                                                             *)
(***************************************************************************)

\* Some revocation list has an entry for the certificate.
Named(cert, crls) ==
    \E crl \in crls : \E i \in DOMAIN crl.entries :
        crl.entries[i].kind = "serial" /\ crl.entries[i].serial = cert.serial

\* The revocation lists with nothing wrong in them.
IntactCrls ==
    {crl \in config.crls :
        /\ crl.header
        /\ \A i \in DOMAIN crl.entries : crl.entries[i].kind \in {"serial", "bare"}}

\* Positions as a path from a leaf up to a trust anchor, the reference notion:
\* linked by name and signature, in date, in no intact CRL, ending at a pinned root.
IsTrustPath(p) ==
    LET path == [i \in DOMAIN p |-> Given[p[i]]] IN
    /\ \A i \in DOMAIN p : path[i].current /\ ~Named(path[i], IntactCrls)
    /\ \A i \in 1..(Len(p) - 1) :
          /\ path[i].issuer = path[i + 1].subject
          /\ path[i].signer = path[i + 1].key
          /\ path[i + 1].ca = "yes"
    /\ path[Len(p)] \in Pinned

\* Sequences of distinct positions.
Paths ==
    UNION {{p \in [1..n -> DOMAIN Given] : \A i, j \in 1..n : p[i] = p[j] => i = j} :
           n \in 1..Len(Given)}

\* verifyTdx and verifySgx accept a quote only if its quoting enclave's report is
\* signed with the leaf key of some trust path among the certificates presented,
\* is bound to the attestation key, and that key signed the quote -- in whatever
\* order the certificates come, with duplicates, look-alikes of the same name
\* and certificates that have nothing to do with the quote among them. If the
\* TCB is checked, the platform is at a level in good standing of a TCB info
\* that is in date; if measurements are, some item agrees with the quote.
AcceptedIsTrusted ==
    verdict = "accepted" /\ tee \in {"tdx", "sgx"} =>
        /\ \E p \in Paths : IsTrustPath(p) /\ Given[p[1]].key = quote.signer
        /\ quote.bound /\ quote.signed /\ quote.header
        /\ config.checkTcb =>
              /\ config.tcbInfo.now \in config.tcbInfo.issueDate..config.tcbInfo.nextUpdate
              /\ \E i \in DOMAIN config.tcbInfo.levels :
                    /\ config.tcbInfo.levels[i].status \in GoodStatus
                    /\ Meets(config.tcbInfo.levels[i], quote.svn, PceSvn, tee = "tdx")
        /\ config.measured => \E item \in config.items : Matches(item, quote.body)

\* Levels in good standing come before the others, as in Intel's lists.
GoodFirst(levels) ==
    \A i, j \in DOMAIN levels :
        i < j /\ levels[j].status \in GoodStatus => levels[i].status \in GoodStatus

\* A TCB verdict never favours the older platform: where verifyTdx or verifySgx
\* refuse one for its TCB, they refuse every platform that is not ahead of it in
\* any component -- although a level is picked by first match, lists only some
\* components, and may leave out the PCE.
TcbVerdictIsMonotone ==
    verdict = "tcb" /\ tee \in {"tdx", "sgx"} /\ GoodFirst(config.tcbInfo.levels) =>
        \A svn \in [Components -> Svns], pceSvn \in Svns :
            (\A c \in Components : svn[c] <= quote.svn[c]) /\ pceSvn <= PceSvn =>
                ~verifyTcb(config.tcbInfo, svn, pceSvn, tee = "tdx")

\* verifySevSnp called with all three certificates accepts a report only if the
\* VCEK that signed it is at the bottom of a path to a pinned ARK. (Where the caller
\* pins none, by an empty list, any ARK will do: not so for Intel's roots.)
SevAcceptedIsTrusted ==
    verdict = "accepted" /\ tee = "sevsnp" /\ Len(embedded) = 3 /\ Pinned # {} =>
        IsTrustPath(<<1, 2, 3>>) /\ embedded[1].key = quote.signer /\ quote.signed

\* A path that has nothing wrong with it is all that was presented, and no two of
\* its certificates have the same name.
OnlyPathPresented(p) ==
    /\ Len(p) = Len(Given)
    /\ IsTrustPath(p)
    /\ PathIsSound([i \in DOMAIN p |-> Given[p[i]]])
    /\ \A i \in DOMAIN p : ~Named(Given[p[i]], config.crls)
    /\ \A i, j \in DOMAIN Given : Given[i].subject = Given[j].subject => i = j

\* "Identifies the leaf certificate and walks up the chain" (verifyPCKChain): if
\* the certificates presented are exactly one sound trust path, however they are
\* ordered, no check of the chain or of the root fails. (Of two with the same name,
\* as after a change of a CA's key, the walk takes the first.)
OrderDoesNotMatter ==
    /\ pc = "done" /\ tee \in {"tdx", "sgx"}
    /\ \E p \in Paths : OnlyPathPresented(p)
    => verdict \notin {"expired", "invalid", "revoked", "root"}

\* The walk cannot leave certificates each of which names as its issuer another one
\* of them, as two that have issued each other: what verifyPCKChain is given comes
\* with the quote, and nothing there rules them out.
GoesRound ==
    /\ tee # "sevsnp"
    /\ \E C \in SUBSET DOMAIN Given :
          /\ LeafIndex \in C
          /\ \A i \in C : IssuersOf(i) # {} /\ First(IssuersOf(i)) \in C \ {i}

\* The walk of verifyPCKChain: it goes from each certificate to the first other one
\* with the issuer's name. Unless it goes round it comes to no certificate twice, and
\* to no more than there are; and if it has come to an end it has not gone round.
ChainClimbs ==
    /\ \A i \in 1..(Len(chain) - 1) :
          chain[i + 1] = First(IssuersOf(chain[i])) /\ chain[i + 1] # chain[i]
    /\ ~GoesRound => /\ Len(chain) <= Len(Given)
                     /\ \A i, j \in DOMAIN chain : chain[i] = chain[j] => i = j
    /\ pc \in {"judge", "done"} => ~GoesRound

\* The chain is a walk up the issuers that no certificate stops short and that ends
\* without repetition if it ends, and no order of the certificates makes a sound path
\* fail.
VerifierInv == TypeOK /\ ChainClimbs /\ OrderDoesNotMatter

\* Every call ends, whatever duplicates and look-alikes its list contains, unless
\* certificates name each other as issuers: then, and only then (ChainClimbs), the
\* walk, a loop with no bound of its own, does not.
VerificationEnds == ~GoesRound => <>(pc = "done")
=============================================================================
