-------------------------- MODULE MCQuoteVerifier --------------------------
(***************************************************************************)
(* QuoteVerifier for TLC: one genuine chain pck <- mid <- root and         *)
(* certificates that resemble its members.  The calls are a union of       *)
(* boxes, each of which varies one kind of input.                          *)
(***************************************************************************)
EXTENDS QuoteVerifier, TLC

Cert(name, serial, subject, issuer, key, signer, ca) ==
    [name |-> name, serial |-> serial, subject |-> subject, issuer |-> issuer,
     key |-> key, signer |-> signer, ca |-> ca, pathLen |-> NoLimit, current |-> TRUE,
     pceSvn |-> IF subject = "pck" THEN 1 ELSE Unset]

Pck     == Cert("Pck", 1, "pck", "mid", "kPck", "kMid", "no")
Mid     == [Cert("Mid", 2, "mid", "root", "kMid", "kRoot", "yes") EXCEPT !.pathLen = 0]
Root    == [Cert("Root", 3, "root", "root", "kRoot", "kRoot", "yes") EXCEPT !.pathLen = 1]

\* Same name, other key.
PckLike  == Cert("PckLike", 1, "pck", "mid", "kOther", "kOther", "absent")
RootLike == Cert("RootLike", 4, "root", "root", "kOther", "kOther", "yes")
\* Out of date; no room for an intermediate; issued by the one it issues; issued by
\* one that is no CA.
MidOld   == [Mid EXCEPT !.name = "MidOld", !.serial = 5, !.current = FALSE]
RootFlat == [Root EXCEPT !.name = "RootFlat", !.serial = 6, !.pathLen = 0]
MidRound == Cert("MidRound", 7, "mid", "pck", "kMid", "kPck", "yes")
SubPck   == Cert("SubPck", 2, "sub", "pck", "kSub", "kPck", "no")

BaseCerts == {Pck, Mid, Root, PckLike, RootLike, MidOld, RootFlat, MidRound, SubPck}
PckAt(n) == [Pck EXCEPT !.pceSvn = n]
AllCerts == BaseCerts \cup {PckAt(n) : n \in 0..2}
Roots == {Root, RootFlat}
AllLists == UNION {[1..n -> BaseCerts] : n \in 0..3}
Upwards == <<Pck, Mid, Root>>

TwoComponents == {1, 2}
Crl(entries) == [header |-> TRUE, entries |-> entries]
Serial(n) == [kind |-> "serial", serial |-> n]
MidRevoked == Crl(<<Serial(2)>>)

Level(status, pceSvn, required) ==
    [status |-> status, pceSvn |-> pceSvn, sgx |-> required, tdx |-> required]
SomeLevels ==
    {Level("UpToDate", 1, <<1, 2>>), Level("UpToDate", Unset, <<2>>),
     Level("ConfigurationNeeded", 1, 2 :> 1), Level("OutOfDate", 2, <<1, 1>>),
     Level("Revoked", Unset, <<>>),
     [Level("UpToDate", 0, <<2, 2>>) EXCEPT !.tdx = <<1, 0>>]}
TcbInfo(levels, now) ==
    [ok |-> TRUE, levels |-> levels, issueDate |-> 1, nextUpdate |-> 2, now |-> now]

Standard ==
    [extraCertdata |-> <<>>, crls |-> {}, checkTcb |-> FALSE, callerSaysTcb |-> FALSE,
     tcbInfo |-> TcbInfo(<<>>, 1), measured |-> FALSE, items |-> {},
     allowDebug |-> FALSE, maxVmpl |-> Unset, enforceSmt |-> TRUE]
Genuine ==
    [header |-> TRUE, certType |-> 5, signer |-> "kPck", bound |-> TRUE, signed |-> TRUE,
     svn |-> <<1, 1>>, pceSvn |-> 2, body |-> <<0, 0>>,
     debug |-> FALSE, vmpl |-> 0, smtOn |-> TRUE, smtAllowed |-> TRUE]
Call(t, certs, q, conf) == [tee |-> t, embedded |-> certs, quote |-> q, config |-> conf]

Tees == {"tdx", "sgx", "sevsnp"}
IntelTees == {"tdx", "sgx"}

\* Every list of certificates, with a quote that has at most one thing wrong.
FaultyQuotes ==
    {Genuine,
     [Genuine EXCEPT !.signer = "kOther"], [Genuine EXCEPT !.signer = "kSub"],
     [Genuine EXCEPT !.header = FALSE], [Genuine EXCEPT !.certType = 1],
     [Genuine EXCEPT !.bound = FALSE], [Genuine EXCEPT !.signed = FALSE]}
ChainCalls ==
    {Call(t, l, q, [Standard EXCEPT !.crls = r]) :
        t \in Tees, l \in AllLists, q \in FaultyQuotes, r \in {{}, {MidRevoked}}}
    \cup {Call(t, <<>>, q, [Standard EXCEPT !.extraCertdata = <<Root, Mid, Pck>>]) :
        t \in IntelTees, q \in FaultyQuotes}

\* Every revocation list of up to three entries, alone and beside a sound one.
SomeEntries ==
    {Serial(2), Serial(9)} \cup {[kind |-> k, serial |-> 0] : k \in {"bare", "other", "torn"}}
SomeCrls == {[header |-> h, entries |-> e] :
                h \in BOOLEAN, e \in UNION {[1..n -> SomeEntries] : n \in 0..3}}
CrlCalls ==
    {Call(t, Upwards, Genuine, [Standard EXCEPT !.crls = r]) :
        t \in Tees, r \in {{c} : c \in SomeCrls} \cup {{c, MidRevoked} : c \in SomeCrls}}

\* Every platform, under every list of up to two levels and at the edges of its dates.
TcbCalls ==
    {Call(t, <<PckAt(pce), Mid, Root>>,
          [Genuine EXCEPT !.svn = svn, !.certType = ct],
          [Standard EXCEPT !.checkTcb = TRUE, !.tcbInfo = TcbInfo(ls, 1)]) :
        t \in IntelTees, pce \in 0..2, svn \in [TwoComponents -> 0..2], ct \in {1, 5},
        ls \in UNION {[1..n -> SomeLevels] : n \in 0..2}}
    \cup {Call(t, Upwards, Genuine,
               [Standard EXCEPT !.checkTcb = TRUE, !.callerSaysTcb = ok,
                   !.tcbInfo = [TcbInfo(<<Level("UpToDate", Unset, <<>>)>>, now)
                                EXCEPT !.ok = ok]]) :
        t \in Tees, now \in 0..3, ok \in BOOLEAN}

\* Every body, under every one or two items or verifiers.
Bodies == [{1, 2} -> {0, 1}]
Items ==
    {[custom |-> FALSE, fields |-> f, accepts |-> {}] :
        f \in UNION {[F -> {0, 1}] : F \in SUBSET {1, 2}}}
    \cup {[custom |-> TRUE, fields |-> <<>>, accepts |-> a] : a \in {{}, {<<0, 1>>}}}
MeasuredCalls ==
    {Call(t, Upwards, [Genuine EXCEPT !.body = b],
          [Standard EXCEPT !.measured = TRUE, !.items = i]) :
        t \in Tees, b \in Bodies, i \in {{}} \cup {{x, y} : x \in Items, y \in Items}}

\* Every policy of a SEV-SNP guest.
PolicyCalls ==
    {Call("sevsnp", Upwards,
          [Genuine EXCEPT !.debug = d, !.vmpl = v, !.smtOn = s, !.smtAllowed = a],
          [Standard EXCEPT !.allowDebug = ad, !.maxVmpl = mv, !.enforceSmt = es]) :
        d \in BOOLEAN, v \in 0..3, s \in BOOLEAN, a \in BOOLEAN,
        ad \in BOOLEAN, mv \in {Unset, 0, 1}, es \in BOOLEAN}

AllCalls == ChainCalls \cup CrlCalls \cup TcbCalls \cup MeasuredCalls \cup PolicyCalls
=============================================================================
