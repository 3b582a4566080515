------------------------ MODULE QuoteVerifierProofs ------------------------
(***************************************************************************)
(* TLAPS proofs about QuoteVerifier: what an accepted quote rests on, for  *)
(* any certificates, in any number and order, any revocation lists, TCB    *)
(* levels and measurements.                                                *)
(***************************************************************************)
EXTENDS QuoteVerifier, FiniteSetTheorems, WellFoundedInduction, TLAPS

-----------------------------------------------------------------------------
(***************************************************************************)
(* First, and lists of checks.                                             *)
(***************************************************************************)

\* A set of natural numbers has a least element.
LEMMA LeastNatural ==
    ASSUME NEW S \in SUBSET Nat, S # {}
    PROVE  \E x \in S : \A y \in S : x <= y
<1>1. PICK x \in S : \A y \in S : ~(<<y, x>> \in OpToRel(<, Nat))
  BY NatLessThanWellFounded, WFMin
<1>2. \A y \in Nat : <<y, x>> \in OpToRel(<, Nat) <=> y < x
  BY DEF OpToRel
<1>3. \A y \in S : ~(y < x)
  BY <1>1, <1>2
<1>4. \A y \in S : x <= y
  BY <1>3
<1> QED
  BY <1>4

\* First picks it.
LEMMA FirstIsLeast ==
    ASSUME NEW S \in SUBSET Nat, S # {}
    PROVE  First(S) \in S /\ \A j \in S : First(S) <= j
BY LeastNatural DEF First

\* The verdicts of TypeOK.
Verdicts ==
    {"none", "accepted", "policy", "expired", "revoked", "invalid", "root",
     "header", "report_signature", "binding", "signature", "fields",
     "tcb", "measurements"}

\* A list of checks whose verdicts are reasons for a refusal.
Reasons(checks) ==
    /\ \E n \in Nat : DOMAIN checks = 1..n
    /\ \A i \in DOMAIN checks : checks[i][1] # "accepted"

\* A quote is accepted only if every check passes.
LEMMA AcceptedPassesAll ==
    ASSUME NEW checks, Reasons(checks), FirstFailing(checks) = "accepted"
    PROVE  \A i \in DOMAIN checks : checks[i][2]
<1> DEFINE failing == {i \in DOMAIN checks : ~checks[i][2]}
<1>1. failing \in SUBSET Nat
  BY DEF Reasons
<1>2. failing = {}
  BY <1>1, FirstIsLeast DEF FirstFailing, Reasons
<1> QED
  BY <1>2

\* A refusal names a check that fails.
LEMMA RefusedFailsOne ==
    ASSUME NEW checks, Reasons(checks), NEW v, FirstFailing(checks) = v, v # "accepted"
    PROVE  \E i \in DOMAIN checks : checks[i][1] = v /\ ~checks[i][2]
<1> DEFINE failing == {i \in DOMAIN checks : ~checks[i][2]}
<1>1. failing \in SUBSET Nat
  BY DEF Reasons
<1>2. failing # {} /\ v = checks[First(failing)][1]
  BY DEF FirstFailing
<1>3. First(failing) \in failing
  BY <1>1, <1>2, FirstIsLeast
<1> QED
  BY <1>2, <1>3

\* Either way it is the verdict of a check.
LEMMA VerdictIsOfACheck ==
    ASSUME NEW checks, Reasons(checks), \A i \in DOMAIN checks : checks[i][1] \in Verdicts
    PROVE  FirstFailing(checks) \in Verdicts
<1>1. CASE FirstFailing(checks) = "accepted"
  BY <1>1 DEF Verdicts
<1>2. CASE FirstFailing(checks) # "accepted"
  BY <1>2, RefusedFailsOne
<1> QED
  BY <1>1, <1>2

\* A list of eleven checks, in the order of verifyTdx and verifySgx.
LEMMA ElevenChecks ==
    ASSUME NEW c1, NEW c2, NEW c3, NEW c4, NEW c5, NEW c6, NEW c7, NEW c8, NEW c9, NEW c10, NEW c11,
           NEW checks,
           checks = << <<"expired", c1>>, <<"invalid", c2>>, <<"revoked", c3>>,
                       <<"root", c4>>, <<"header", c5>>, <<"report_signature", c6>>,
                       <<"binding", c7>>, <<"signature", c8>>, <<"fields", c9>>,
                       <<"tcb", c10>>, <<"measurements", c11>> >>
    PROVE  /\ Reasons(checks)
           /\ \A i \in DOMAIN checks : checks[i][1] \in Verdicts
           /\ (\A i \in DOMAIN checks : checks[i][2]) =>
                 c1 /\ c2 /\ c3 /\ c4 /\ c5 /\ c6 /\ c7 /\ c8 /\ c10 /\ c11
           /\ (\E i \in DOMAIN checks : checks[i][1] = "tcb" /\ ~checks[i][2]) => ~c10
           /\ (\E i \in DOMAIN checks :
                  checks[i][1] \in {"expired", "invalid", "revoked", "root"} /\ ~checks[i][2]) =>
                 ~(c1 /\ c2 /\ c3 /\ c4)
<1>1. DOMAIN checks = 1..11
  OBVIOUS
<1>2. /\ checks[1] = <<"expired", c1>> /\ checks[2] = <<"invalid", c2>> /\ checks[3] = <<"revoked", c3>>
      /\ checks[4] = <<"root", c4>> /\ checks[5] = <<"header", c5>>
      /\ checks[6] = <<"report_signature", c6>> /\ checks[7] = <<"binding", c7>>
      /\ checks[8] = <<"signature", c8>> /\ checks[9] = <<"fields", c9>>
      /\ checks[10] = <<"tcb", c10>> /\ checks[11] = <<"measurements", c11>>
  OBVIOUS
<1>3. \A i \in 1..11 : i \in {1, 2, 3, 4} \/ i \in {5, 6, 7, 8, 9, 10, 11}
  OBVIOUS
<1>4. Reasons(checks)
  <2>1. \A i \in {1, 2, 3, 4} : checks[i][1] # "accepted"
    BY <1>2
  <2>2. \A i \in {5, 6, 7, 8, 9, 10, 11} : checks[i][1] # "accepted"
    BY <1>2
  <2> QED
    BY <1>1, <1>3, <2>1, <2>2 DEF Reasons
<1>5. (\A i \in DOMAIN checks : checks[i][2]) => c1 /\ c2 /\ c3 /\ c4 /\ c5 /\ c6 /\ c7 /\ c8 /\ c10 /\ c11
  BY <1>1, <1>2
<1>6. \A i \in 1..11 : checks[i][1] = "tcb" => i = 10
  BY <1>2, <1>3
<1>7. \A i \in 1..11 : checks[i][1] \in {"expired", "invalid", "revoked", "root"} => i \in {1, 2, 3, 4}
  <2>1. \A i \in {5, 6, 7, 8, 9, 10, 11} : checks[i][1] \notin {"expired", "invalid", "revoked", "root"}
    BY <1>2
  <2> QED
    BY <1>3, <2>1
<1>8. (\E i \in DOMAIN checks : checks[i][1] = "tcb" /\ ~checks[i][2]) => ~c10
  BY <1>1, <1>2, <1>6
<1>9. (\E i \in DOMAIN checks :
          checks[i][1] \in {"expired", "invalid", "revoked", "root"} /\ ~checks[i][2]) =>
         ~(c1 /\ c2 /\ c3 /\ c4)
  <2>1. checks[1][2] = c1 /\ checks[2][2] = c2 /\ checks[3][2] = c3 /\ checks[4][2] = c4
    BY <1>2
  <2>2. ASSUME NEW i \in {1, 2, 3, 4}, ~checks[i][2] PROVE ~(c1 /\ c2 /\ c3 /\ c4)
    BY <2>1, <2>2
  <2> QED
    BY <1>1, <1>7, <2>2
<1>10. \A i \in DOMAIN checks : checks[i][1] \in Verdicts
  <2>1. \A i \in {1, 2, 3, 4} : checks[i][1] \in Verdicts
    BY <1>2 DEF Verdicts
  <2>2. \A i \in {5, 6, 7, 8, 9, 10, 11} : checks[i][1] \in Verdicts
    BY <1>2 DEF Verdicts
  <2> QED
    BY <1>1, <1>3, <2>1, <2>2
<1> QED
  BY <1>4, <1>5, <1>8, <1>9, <1>10

\* The checks of verifyTdx and verifySgx.
LEMMA IntelCheckList ==
    ASSUME NEW certTypes, NEW checks, checks = IntelChecks(certTypes)
    PROVE  /\ Reasons(checks)
           /\ \A i \in DOMAIN checks : checks[i][1] \in Verdicts
           /\ (\A i \in DOMAIN checks : checks[i][2]) =>
                 /\ AllCurrent(Path) /\ PathIsSound(Path) /\ NoneRevoked(Path)
                 /\ Path[Len(Path)] \in Pinned
                 /\ quote.header /\ QeReportSigned /\ QeReportBound /\ QuoteSigned
                 /\ TcbAccepted /\ Measured
           /\ (\E i \in DOMAIN checks : checks[i][1] = "tcb" /\ ~checks[i][2]) => ~TcbAccepted
           /\ (\E i \in DOMAIN checks :
                  checks[i][1] \in {"expired", "invalid", "revoked", "root"} /\ ~checks[i][2]) =>
                 ~(/\ AllCurrent(Path) /\ PathIsSound(Path) /\ NoneRevoked(Path)
                   /\ Path[Len(Path)] \in Pinned)
<1> DEFINE b1 == AllCurrent(Path)
           b2 == PathIsSound(Path)
           b3 == NoneRevoked(Path)
           b4 == Path[Len(Path)] \in Pinned
           b5 == quote.header /\ quote.certType \in certTypes
           b6 == QeReportSigned
           b7 == QeReportBound
           b8 == QuoteSigned
           b9 == Path[1].pceSvn # Unset
           b10 == TcbAccepted
           b11 == Measured
<1>1. checks = << <<"expired", b1>>, <<"invalid", b2>>, <<"revoked", b3>>,
                  <<"root", b4>>, <<"header", b5>>, <<"report_signature", b6>>,
                  <<"binding", b7>>, <<"signature", b8>>, <<"fields", b9>>,
                  <<"tcb", b10>>, <<"measurements", b11>> >>
  BY Zenon DEF IntelChecks
<1> HIDE DEF b1, b2, b3, b4, b5, b6, b7, b8, b9, b10, b11
<1>2. /\ Reasons(checks)
      /\ \A i \in DOMAIN checks : checks[i][1] \in Verdicts
      /\ (\A i \in DOMAIN checks : checks[i][2]) =>
            b1 /\ b2 /\ b3 /\ b4 /\ b5 /\ b6 /\ b7 /\ b8 /\ b10 /\ b11
      /\ (\E i \in DOMAIN checks : checks[i][1] = "tcb" /\ ~checks[i][2]) => ~b10
      /\ (\E i \in DOMAIN checks :
             checks[i][1] \in {"expired", "invalid", "revoked", "root"} /\ ~checks[i][2]) =>
            ~(b1 /\ b2 /\ b3 /\ b4)
  BY <1>1, ElevenChecks
<1> QED
  BY <1>2 DEF b1, b2, b3, b4, b5, b6, b7, b8, b10, b11

-----------------------------------------------------------------------------
(***************************************************************************)
(* tcb.ts.                                                                 *)
(***************************************************************************)

\* A platform that is ahead in every component meets what the other one meets.
LEMMA MeetsIsMonotone ==
    ASSUME NEW level \in Levels,
           NEW low \in [Components -> Svns], NEW high \in [Components -> Svns],
           \A c \in Components : low[c] <= high[c],
           NEW lowPce \in Int, NEW highPce \in Int, lowPce <= highPce,
           NEW isTdx \in BOOLEAN,
           Meets(level, low, lowPce, isTdx)
    PROVE  Meets(level, high, highPce, isTdx)
<1> DEFINE required == IF isTdx THEN level.tdx ELSE level.sgx
<1>1. PICK C \in SUBSET Components : required \in [C -> Svns]
  BY DEF Levels
<1>2. Reaches(low, required) => Reaches(high, required)
  <2> HIDE DEF required
  <2> SUFFICES ASSUME Reaches(low, required), NEW c \in DOMAIN required
               PROVE  high[c] >= required[c]
    BY DEF Reaches
  <2>1. c \in Components /\ required[c] \in Int /\ low[c] \in Int /\ high[c] \in Int
    BY <1>1, CertsAssumption DEF Svns
  <2>2. low[c] >= required[c]
    BY DEF Reaches
  <2> QED
    BY <2>1, <2>2
<1>3. level.pceSvn # Unset => level.pceSvn \in Int
  BY CertsAssumption DEF Levels, Svns
<1>4. level.pceSvn # Unset => highPce >= level.pceSvn
  BY <1>3 DEF Meets
<1> QED
  BY <1>2, <1>4 DEF Meets

\* getTcbStatus reads the status of the first level that is met, if there is one.
LEMMA StatusOfFirstMet ==
    ASSUME NEW levels \in Seq(Levels), NEW svn, NEW pceSvn, NEW isTdx,
           NEW k \in DOMAIN levels, Meets(levels[k], svn, pceSvn, isTdx)
    PROVE  \E i \in DOMAIN levels :
              /\ i <= k
              /\ Meets(levels[i], svn, pceSvn, isTdx)
              /\ getTcbStatus(levels, svn, pceSvn, isTdx) = levels[i].status
<1> DEFINE met == {i \in DOMAIN levels : Meets(levels[i], svn, pceSvn, isTdx)}
<1>1. DOMAIN levels = 1..Len(levels) /\ Len(levels) \in Nat
  OBVIOUS
<1>2. met \in SUBSET Nat /\ met # {}
  BY <1>1
<1>3. PICK i \in met : \A j \in met : i <= j
  BY <1>2, LeastNatural
<1>4. FirstMet(levels, svn, pceSvn, isTdx, i)
  <2>1. \A j \in 1..(i - 1) : j \in DOMAIN levels /\ ~(i <= j)
    BY <1>1
  <2> QED
    BY <1>3, <2>1 DEF FirstMet
<1>5. \A j \in DOMAIN levels : FirstMet(levels, svn, pceSvn, isTdx, j) => j = i
  <2> SUFFICES ASSUME NEW j \in DOMAIN levels, FirstMet(levels, svn, pceSvn, isTdx, j)
               PROVE  j = i
    OBVIOUS
  <2>1. j \in met
    BY DEF FirstMet
  <2>2. i <= j /\ i \in Nat /\ j \in Nat /\ i >= 1
    BY <1>1, <1>3, <2>1
  <2>3. ~(i \in 1..(j - 1))
    BY DEF FirstMet
  <2> QED
    BY <2>2, <2>3
<1>6. (CHOOSE j \in DOMAIN levels : FirstMet(levels, svn, pceSvn, isTdx, j)) = i
  BY <1>4, <1>5
<1>7. getTcbStatus(levels, svn, pceSvn, isTdx) = levels[i].status
  BY <1>4, <1>6 DEF getTcbStatus
<1> QED
  BY <1>3, <1>7

\* A status in good standing is that of a level the platform meets.
LEMMA GoodStatusIsMet ==
    ASSUME NEW levels \in Seq(Levels), NEW svn, NEW pceSvn, NEW isTdx,
           getTcbStatus(levels, svn, pceSvn, isTdx) \in GoodStatus
    PROVE  \E i \in DOMAIN levels : /\ Meets(levels[i], svn, pceSvn, isTdx)
                                    /\ levels[i].status \in GoodStatus
<1>1. "OutOfDate" \notin GoodStatus
  BY DEF GoodStatus
<1>2. \E i \in DOMAIN levels : FirstMet(levels, svn, pceSvn, isTdx, i)
  BY <1>1 DEF getTcbStatus
<1> DEFINE i == CHOOSE j \in DOMAIN levels : FirstMet(levels, svn, pceSvn, isTdx, j)
<1>3. i \in DOMAIN levels /\ FirstMet(levels, svn, pceSvn, isTdx, i)
  BY <1>2
<1>4. levels[i].status \in GoodStatus
  BY <1>2 DEF getTcbStatus
<1> QED
  BY <1>3, <1>4 DEF FirstMet

\* verifyTcb never prefers the platform that is behind.
LEMMA VerifyTcbIsMonotone ==
    ASSUME NEW info, info.levels \in Seq(Levels), GoodFirst(info.levels),
           NEW low \in [Components -> Svns], NEW high \in [Components -> Svns],
           \A c \in Components : low[c] <= high[c],
           NEW lowPce \in Int, NEW highPce \in Int, lowPce <= highPce,
           NEW isTdx \in BOOLEAN,
           verifyTcb(info, low, lowPce, isTdx)
    PROVE  verifyTcb(info, high, highPce, isTdx)
<1> DEFINE levels == info.levels
<1>1. PICK k \in DOMAIN levels : /\ Meets(levels[k], low, lowPce, isTdx)
                                 /\ levels[k].status \in GoodStatus
  BY GoodStatusIsMet DEF verifyTcb
<1>2. levels[k] \in Levels
  OBVIOUS
<1>3. Meets(levels[k], high, highPce, isTdx)
  BY <1>1, <1>2, MeetsIsMonotone
<1>4. PICK i \in DOMAIN levels :
          i <= k /\ getTcbStatus(levels, high, highPce, isTdx) = levels[i].status
  BY <1>3, StatusOfFirstMet
<1>5. levels[i].status \in GoodStatus
  <2>1. i \in Nat /\ k \in Nat
    OBVIOUS
  <2> QED
    BY <1>1, <1>4, <2>1 DEF GoodFirst
<1> QED
  BY <1>4, <1>5 DEF verifyTcb

-----------------------------------------------------------------------------
(***************************************************************************)
(* parseCrlRevokedSerials.                                                 *)
(***************************************************************************)

\* A serial that an intact list names is revoked.
LEMMA IntactCrlsRevoke ==
    ASSUME \A crl \in config.crls : crl.entries \in Seq(CrlEntries(Nat)),
           NEW cert, Named(cert, IntactCrls)
    PROVE  cert.serial \in Revoked(config.crls)
<1>1. PICK crl \in IntactCrls : \E i \in DOMAIN crl.entries :
          crl.entries[i].kind = "serial" /\ crl.entries[i].serial = cert.serial
  BY DEF Named
<1>2. PICK i \in DOMAIN crl.entries :
          crl.entries[i].kind = "serial" /\ crl.entries[i].serial = cert.serial
  BY <1>1
<1>3. /\ crl \in config.crls /\ crl.header
      /\ \A j \in DOMAIN crl.entries : crl.entries[j].kind \in {"serial", "bare"}
  BY DEF IntactCrls
<1>4. DOMAIN crl.entries = 1..Len(crl.entries) /\ Len(crl.entries) \in Nat
  BY <1>3
<1>5. EntriesRead(crl) = DOMAIN crl.entries
  BY <1>3, <1>4 DEF EntriesRead
<1>6. cert.serial \in parseCrlRevokedSerials(crl)
  BY <1>2, <1>3, <1>5 DEF parseCrlRevokedSerials
<1> QED
  BY <1>3, <1>6 DEF Revoked

\* A serial that is revoked is named by some list.
LEMMA RevokedIsNamed ==
    ASSUME NEW cert, cert.serial \in Revoked(config.crls)
    PROVE  Named(cert, config.crls)
<1>1. PICK crl \in config.crls : cert.serial \in parseCrlRevokedSerials(crl)
  BY DEF Revoked
<1> QED
  BY <1>1 DEF parseCrlRevokedSerials, EntriesRead, Named

-----------------------------------------------------------------------------
(***************************************************************************)
(* verifyPCKChain: the walk over a list g of certificates.                 *)
(***************************************************************************)

\* Positions of the certificates of g that issued the one at i; IssuersOf of Given.
IssuersIn(g, i) == {j \in DOMAIN g : g[j].subject = g[i].issuer}

\* What the walk has come to: from each certificate it has gone to the first one with
\* the issuer's name, which was another one.
Climbs(g, s) ==
    \A i \in DOMAIN s : i + 1 \in DOMAIN s =>
        /\ IssuersIn(g, s[i]) # {}
        /\ s[i + 1] = First(IssuersIn(g, s[i]))
        /\ s[i + 1] # s[i]

\* Certificates that a walk which has come to one of them does not leave.
Keeps(g, C) ==
    /\ C \subseteq DOMAIN g
    /\ \A i \in C : IssuersIn(g, i) # {} /\ First(IssuersIn(g, i)) \in C \ {i}

\* A walk from x has no end: GoesRound, of any list.
Trapped(g, x) == \E C \in SUBSET DOMAIN g : x \in C /\ Keeps(g, C)

LEMMA FirstIssuer ==
    ASSUME NEW g \in Seq(Certs), NEW i \in DOMAIN g, IssuersIn(g, i) # {}
    PROVE  /\ First(IssuersIn(g, i)) \in DOMAIN g
           /\ g[First(IssuersIn(g, i))].subject = g[i].issuer
<1>1. IssuersIn(g, i) \in SUBSET Nat
  BY DEF IssuersIn
<1>2. First(IssuersIn(g, i)) \in IssuersIn(g, i)
  BY <1>1, FirstIsLeast
<1> QED
  BY <1>2 DEF IssuersIn

\* One turn of the loop climbs on.
LEMMA WalkClimbs ==
    ASSUME NEW g \in Seq(Certs), NEW s \in Seq(DOMAIN g), s # <<>>, Climbs(g, s),
           IssuersIn(g, s[Len(s)]) # {},
           First(IssuersIn(g, s[Len(s)])) # s[Len(s)]
    PROVE  Climbs(g, Append(s, First(IssuersIn(g, s[Len(s)]))))
<1> DEFINE n == Len(s)
           x == First(IssuersIn(g, s[n]))
           t == Append(s, x)
<1>1. n \in Nat /\ n >= 1 /\ DOMAIN s = 1..n
  OBVIOUS
<1>2. s[n] \in DOMAIN g
  BY <1>1
<1>3. x \in DOMAIN g
  BY <1>2, FirstIssuer
<1>4. DOMAIN t = 1..(n + 1) /\ t[n + 1] = x /\ \A i \in 1..n : t[i] = s[i]
  BY <1>1, <1>3
<1> HIDE DEF n, x, t
<1>5. ASSUME NEW i \in DOMAIN t, i + 1 \in DOMAIN t
      PROVE  /\ IssuersIn(g, t[i]) # {}
             /\ t[i + 1] = First(IssuersIn(g, t[i]))
             /\ t[i + 1] # t[i]
  <2>1. i = n \/ (i \in 1..n /\ i + 1 \in 1..n)
    BY <1>1, <1>4, <1>5
  <2>2. CASE i = n
    BY <1>1, <1>4, <2>2 DEF n, x
  <2>3. CASE i \in 1..n /\ i + 1 \in 1..n
    BY <1>1, <1>4, <2>3 DEF Climbs
  <2> QED
    BY <2>1, <2>2, <2>3
<1>6. Climbs(g, t)
  BY <1>5 DEF Climbs
<1> QED
  BY <1>6 DEF t, x, n

\* Positions of a sequence are as many as its length.
LEMMA IntervalSize ==
    ASSUME NEW n \in Nat
    PROVE  IsFiniteSet(1..n) /\ Cardinality(1..n) = n
<1>1. IsFiniteSet(1..n) /\ Cardinality(1..n) = IF 1 > n THEN 0 ELSE n - 1 + 1
  BY FS_Interval
<1> QED
  BY <1>1

\* A walk that has come back to a certificate is going round.
LEMMA ComingBackIsGoingRound ==
    ASSUME NEW g \in Seq(Certs), NEW s \in Seq(DOMAIN g), Climbs(g, s),
           NEW i \in DOMAIN s, NEW j \in DOMAIN s, i < j, s[i] = s[j]
    PROVE  Trapped(g, s[1])
<1> DEFINE C == {s[k] : k \in 1..(j - 1)}
<1>1. /\ DOMAIN s = 1..Len(s) /\ Len(s) \in Nat /\ i \in 1..(j - 1) /\ 1 \in 1..(j - 1)
      /\ \A k \in 1..(j - 1) : k \in DOMAIN s /\ k + 1 \in DOMAIN s
  OBVIOUS
<1>2. C \in SUBSET DOMAIN g /\ s[1] \in C
  BY <1>1
<1>3. ASSUME NEW k \in 1..(j - 1)
      PROVE  IssuersIn(g, s[k]) # {} /\ First(IssuersIn(g, s[k])) \in C \ {s[k]}
  <2>1. /\ IssuersIn(g, s[k]) # {} /\ s[k + 1] = First(IssuersIn(g, s[k])) /\ s[k + 1] # s[k]
    BY <1>1 DEF Climbs
  <2>2. k + 1 \in 1..(j - 1) \/ k + 1 = j
    BY <1>1
  <2>3. s[k + 1] \in C
    BY <1>1, <2>2
  <2> QED
    BY <2>1, <2>3
<1>4. \A x \in C : IssuersIn(g, x) # {} /\ First(IssuersIn(g, x)) \in C \ {x}
  BY <1>3
<1>5. Keeps(g, C)
  BY <1>2, <1>4 DEF Keeps
<1> QED
  BY <1>2, <1>5 DEF Trapped

\* Any other comes to no certificate twice, and so to at most as many as there are.
LEMMA ClimbsWithoutRepetition ==
    ASSUME NEW g \in Seq(Certs), NEW s \in Seq(DOMAIN g), Climbs(g, s), ~Trapped(g, s[1])
    PROVE  /\ \A i, j \in DOMAIN s : s[i] = s[j] => i = j
           /\ Len(s) <= Len(g)
<1>1. /\ DOMAIN s = 1..Len(s) /\ Len(s) \in Nat
      /\ DOMAIN g = 1..Len(g) /\ Len(g) \in Nat
      /\ \A i \in DOMAIN s : s[i] \in DOMAIN g
  OBVIOUS
<1>2. \A i, j \in DOMAIN s : s[i] = s[j] => i = j
  <2> SUFFICES ASSUME NEW i \in DOMAIN s, NEW j \in DOMAIN s, s[i] = s[j] PROVE i = j
    OBVIOUS
  <2>1. i < j \/ j < i \/ i = j
    BY <1>1
  <2> QED
    BY <2>1, ComingBackIsGoingRound
<1>3. s \in Injection(DOMAIN s, DOMAIN g)
  BY <1>1, <1>2 DEF Injection, IsInjective
<1> QED
  BY <1>1, <1>2, <1>3, IntervalSize, FS_Injection

\* The last certificate has no issuer here, or is its own.
Ended(g, s) ==
    \/ IssuersIn(g, s[Len(s)]) = {}
    \/ First(IssuersIn(g, s[Len(s)])) = s[Len(s)]

\* A walk that has come to an end has not gone round.
LEMMA EndedIsNotTrapped ==
    ASSUME NEW g \in Seq(Certs), NEW s \in Seq(DOMAIN g), s # <<>>, Climbs(g, s), Ended(g, s)
    PROVE  ~Trapped(g, s[1])
<1> SUFFICES ASSUME NEW C \in SUBSET DOMAIN g, s[1] \in C, Keeps(g, C) PROVE FALSE
  BY DEF Trapped
<1> DEFINE n == Len(s)
<1>1. n \in Nat /\ n >= 1 /\ DOMAIN s = 1..n
  OBVIOUS
<1> HIDE DEF n
<1>2. \A k \in 1..n : s[k] \in C
  <2> DEFINE bad == {k \in 1..n : s[k] \notin C}
  <2> SUFFICES ASSUME bad # {} PROVE FALSE
    OBVIOUS
  <2>1. PICK k \in bad : \A j \in bad : k <= j
    <3>1. bad \in SUBSET Nat
      OBVIOUS
    <3> QED
      BY <3>1, LeastNatural
  <2>2. k # 1
    OBVIOUS
  <2>3. PICK l \in 1..n : l + 1 = k
    <3>1. k - 1 \in 1..n /\ (k - 1) + 1 = k
      BY <1>1, <2>2
    <3> QED
      BY <3>1
  <2>4. s[l] \in C /\ k \in 1..n
    <3>1. ~(k <= l)
      BY <2>3
    <3> QED
      BY <2>1, <3>1
  <2>5. s[k] = First(IssuersIn(g, s[l]))
    BY <1>1, <2>3, <2>4 DEF Climbs
  <2> QED
    BY <2>1, <2>4, <2>5 DEF Keeps
<1>3. s[n] \in C
  BY <1>1, <1>2
<1> QED
  BY <1>3 DEF Keeps, Ended, n

\* Certificates that are all on one path p, no two of the same name.
OnePath(g, p) ==
    /\ p \in [1..Len(g) -> DOMAIN g]
    /\ \A i, j \in DOMAIN p : p[i] = p[j] => i = j
    /\ \A i, j \in DOMAIN g : g[i].subject = g[j].subject => i = j
    /\ \A i \in 1..(Len(g) - 1) : g[p[i]].issuer = g[p[i + 1]].subject

\* Each but the top has one issuer; each but the bottom is named as one, and the
\* bottom is not if the top does not name it.
LEMMA OnePathHasOneLeaf ==
    ASSUME NEW g \in Seq(Certs), g # <<>>, NEW p, OnePath(g, p)
    PROVE  /\ \A i \in 1..(Len(g) - 1) : IssuersIn(g, p[i]) = {p[i + 1]}
           /\ \A k \in DOMAIN g : \E i \in 1..Len(g) : p[i] = k
           /\ \A k \in DOMAIN g : k # p[1] => \E j \in DOMAIN g : k \in IssuersIn(g, j)
           /\ Len(g) > 1 /\ IssuersIn(g, p[Len(g)]) \subseteq {p[Len(g)]} =>
                 \A j \in DOMAIN g : p[1] \notin IssuersIn(g, j)
<1> DEFINE n == Len(g)
<1>1. n \in Nat /\ n >= 1 /\ DOMAIN g = 1..n /\ DOMAIN p = 1..n /\ \A i \in 1..n : p[i] \in 1..n
  BY DEF OnePath
<1> HIDE DEF n
<1>2. ASSUME NEW i \in 1..(n - 1) PROVE IssuersIn(g, p[i]) = {p[i + 1]}
  <2>1. i \in 1..n /\ i + 1 \in 1..n
    BY <1>1
  <2>2. p[i] \in 1..n /\ p[i + 1] \in 1..n
    BY <1>1, <2>1
  <2>3. g[p[i]].issuer = g[p[i + 1]].subject
    BY DEF OnePath, n
  <2> QED
    BY <1>1, <2>2, <2>3 DEF IssuersIn, OnePath
<1>3. \A k \in 1..n : \E i \in 1..n : p[i] = k
  <2>1. p \in Injection(1..n, 1..n)
    BY <1>1 DEF OnePath, Injection, IsInjective, n
  <2>2. p \in Surjection(1..n, 1..n)
    BY <1>1, <2>1, IntervalSize, FS_Injection
  <2> QED
    BY <2>2 DEF Surjection
<1>4. ASSUME NEW k \in DOMAIN g, k # p[1] PROVE \E j \in DOMAIN g : k \in IssuersIn(g, j)
  <2>1. PICK i \in 1..n : p[i] = k
    BY <1>1, <1>3
  <2>2. PICK m \in 1..(n - 1) : m + 1 = i
    <3>1. i # 1
      BY <1>4, <2>1
    <3>2. i - 1 \in 1..(n - 1) /\ (i - 1) + 1 = i
      BY <1>1, <3>1
    <3> QED
      BY <3>2
  <2>3. k \in IssuersIn(g, p[m])
    BY <1>2, <2>1, <2>2
  <2>4. m \in 1..n
    BY <1>1
  <2> QED
    BY <1>1, <2>3, <2>4
<1>5. ASSUME n > 1, IssuersIn(g, p[n]) \subseteq {p[n]},
             NEW j \in DOMAIN g, p[1] \in IssuersIn(g, j)
      PROVE  FALSE
  <2>1. PICK i \in 1..n : p[i] = j
    BY <1>1, <1>3
  <2>2. CASE i # n
    <3>1. i \in 1..(n - 1) /\ i + 1 \in 1..n /\ i + 1 # 1 /\ 1 \in 1..n
      BY <1>1, <2>2
    <3>2. p[1] = p[i + 1]
      BY <1>2, <1>5, <2>1, <3>1
    <3> QED
      BY <1>1, <3>1, <3>2 DEF OnePath
  <2>3. CASE i = n
    <3>1. p[1] = p[n] /\ 1 \in 1..n /\ n \in 1..n /\ n # 1
      BY <1>1, <1>5, <2>1, <2>3
    <3> QED
      BY <1>1, <3>1 DEF OnePath
  <2> QED
    BY <2>2, <2>3
<1> QED
  BY <1>1, <1>2, <1>3, <1>4, <1>5 DEF n

\* A walk that has ended, wherever it began, has ended at the top.
LEMMA EndsAtTheTop ==
    ASSUME NEW g \in Seq(Certs), g # <<>>, NEW p, OnePath(g, p),
           NEW s \in Seq(DOMAIN g), s # <<>>, Ended(g, s)
    PROVE  IssuersIn(g, p[Len(g)]) \subseteq {p[Len(g)]}
<1> DEFINE n == Len(g)
           last == s[Len(s)]
<1>1. n \in Nat /\ n >= 1 /\ DOMAIN g = 1..n /\ DOMAIN p = 1..n /\ last \in 1..n
  BY DEF OnePath
<1>2. PICK k \in 1..n : p[k] = last
  BY <1>1, OnePathHasOneLeaf
<1> HIDE DEF n, last
<1>3. k = n
  <2> SUFFICES ASSUME k # n PROVE FALSE
    OBVIOUS
  <2>1. k \in 1..(n - 1) /\ k + 1 \in 1..n /\ k + 1 # k
    BY <1>1
  <2>2. IssuersIn(g, last) = {p[k + 1]}
    <3>1. \A i \in 1..(Len(g) - 1) : IssuersIn(g, p[i]) = {p[i + 1]}
      BY OnePathHasOneLeaf
    <3> QED
      BY <1>2, <2>1, <3>1 DEF n
  <2>3. IssuersIn(g, last) \in SUBSET Nat
    BY <1>1 DEF IssuersIn
  <2>4. First(IssuersIn(g, last)) = p[k + 1]
    BY <2>2, <2>3, FirstIsLeast
  <2>5. p[k + 1] = p[k]
    BY <1>2, <2>2, <2>4 DEF Ended, last
  <2> QED
    BY <1>1, <2>1, <2>5 DEF OnePath
<1>4. \A i, j \in IssuersIn(g, last) : i = j
  BY DEF IssuersIn, OnePath
<1>5. IssuersIn(g, last) # {} => First(IssuersIn(g, last)) \in IssuersIn(g, last)
  <2>1. IssuersIn(g, last) \in SUBSET Nat
    BY <1>1 DEF IssuersIn
  <2> QED
    BY <2>1, FirstIsLeast
<1>6. IssuersIn(g, last) \subseteq {last}
  BY <1>4, <1>5 DEF Ended, last
<1> QED
  BY <1>2, <1>3, <1>6 DEF n

\* From the bottom of such a path the walk takes the path and nothing else.
LEMMA WalkFindsThePath ==
    ASSUME NEW g \in Seq(Certs), g # <<>>, NEW p, OnePath(g, p),
           NEW s \in Seq(DOMAIN g), s # <<>>, Climbs(g, s), s[1] = p[1],
           Ended(g, s)
    PROVE  DOMAIN s = 1..Len(g) /\ \A i \in DOMAIN s : s[i] = p[i]
<1> DEFINE n == Len(g)
           m == Len(s)
<1>1. /\ n \in Nat /\ n >= 1 /\ DOMAIN g = 1..n /\ DOMAIN p = 1..n /\ \A i \in 1..n : p[i] \in 1..n
      /\ m \in Nat /\ m >= 1 /\ DOMAIN s = 1..m
  BY DEF OnePath
<1>2. m <= n
  BY EndedIsNotTrapped, ClimbsWithoutRepetition
<1>3. \A i \in 1..(n - 1) : IssuersIn(g, p[i]) = {p[i + 1]}
  BY OnePathHasOneLeaf
<1>4. \A i \in 1..(n - 1) : First(IssuersIn(g, p[i])) = p[i + 1]
  <2> TAKE i \in 1..(n - 1)
  <2>1. {p[i + 1]} \in SUBSET Nat
    BY <1>1
  <2>2. First({p[i + 1]}) \in {p[i + 1]}
    BY <2>1, FirstIsLeast
  <2> QED
    BY <1>3, <2>2
<1> HIDE DEF n, m
<1>5. \A i \in 1..m : s[i] = p[i]
  <2> DEFINE bad == {i \in 1..m : s[i] # p[i]}
  <2> SUFFICES ASSUME bad # {} PROVE FALSE
    OBVIOUS
  <2>1. bad \in SUBSET Nat
    OBVIOUS
  <2>2. PICK k \in bad : \A j \in bad : k <= j
    BY <2>1, LeastNatural
  <2>3. k # 1
    BY <1>1, <2>2
  <2>4. PICK l \in 1..(n - 1) : l + 1 = k
    <3>1. k - 1 \in 1..(n - 1) /\ (k - 1) + 1 = k
      BY <1>1, <1>2, <2>3
    <3> QED
      BY <3>1
  <2>5. l \in 1..m /\ k \in 1..m /\ ~(k <= l)
    BY <1>1, <2>2, <2>4
  <2>6. s[l] = p[l]
    BY <2>2, <2>5
  <2>7. s[k] = First(IssuersIn(g, s[l]))
    BY <1>1, <2>4, <2>5 DEF Climbs
  <2> QED
    BY <1>4, <2>2, <2>4, <2>6, <2>7
<1>6. m = n
  <2> SUFFICES ASSUME m # n PROVE FALSE
    OBVIOUS
  <2>1. m \in 1..(n - 1) /\ m \in 1..n /\ m + 1 \in 1..n /\ m \in 1..m
    BY <1>1, <1>2
  <2>2. s[m] = p[m]
    BY <1>5, <2>1
  <2>3. p[m + 1] = p[m]
    BY <1>3, <1>4, <2>1, <2>2 DEF m, Ended
  <2>4. m + 1 = m
    BY <1>1, <2>1, <2>3 DEF OnePath
  <2> QED
    BY <1>1, <2>4
<1> QED
  BY <1>1, <1>5, <1>6 DEF n

-----------------------------------------------------------------------------
(***************************************************************************)
(* verifySevSnp: its three lists of checks, one after the other.           *)
(***************************************************************************)

\* What is true of two lists is true of the one after the other.
LEMMA ConcatenatedChecks ==
    ASSUME NEW S, NEW A \in Seq(S), NEW B \in Seq(S)
    PROVE  /\ A \o B \in Seq(S)
           /\ \A i \in DOMAIN A : i \in DOMAIN (A \o B) /\ (A \o B)[i] = A[i]
           /\ \A i \in DOMAIN B : \E j \in DOMAIN (A \o B) : (A \o B)[j] = B[i]
           /\ \A j \in DOMAIN (A \o B) : \/ \E i \in DOMAIN A : (A \o B)[j] = A[i]
                                         \/ \E i \in DOMAIN B : (A \o B)[j] = B[i]
<1>1. /\ Len(A) \in Nat /\ Len(B) \in Nat /\ DOMAIN A = 1..Len(A) /\ DOMAIN B = 1..Len(B)
      /\ Len(A \o B) = Len(A) + Len(B) /\ DOMAIN (A \o B) = 1..(Len(A) + Len(B))
      /\ A \o B \in Seq(S)
  OBVIOUS
<1>2. \A i \in 1..(Len(A) + Len(B)) : (A \o B)[i] = IF i <= Len(A) THEN A[i] ELSE B[i - Len(A)]
  OBVIOUS
<1>3. ASSUME NEW i \in DOMAIN B PROVE \E j \in DOMAIN (A \o B) : (A \o B)[j] = B[i]
  <2>1. Len(A) + i \in 1..(Len(A) + Len(B)) /\ ~(Len(A) + i <= Len(A)) /\ (Len(A) + i) - Len(A) = i
    BY <1>1
  <2> QED
    BY <1>1, <1>2, <2>1
<1>4. ASSUME NEW j \in DOMAIN (A \o B)
      PROVE  \/ \E i \in DOMAIN A : (A \o B)[j] = A[i]
             \/ \E i \in DOMAIN B : (A \o B)[j] = B[i]
  <2>1. CASE j <= Len(A)
    BY <1>1, <1>2, <2>1
  <2>2. CASE ~(j <= Len(A))
    <3>1. j - Len(A) \in 1..Len(B)
      BY <1>1, <2>2
    <3> QED
      BY <1>1, <1>2, <2>2, <3>1
  <2> QED
    BY <2>1, <2>2
<1>5. \A i \in DOMAIN A : i \in DOMAIN (A \o B) /\ (A \o B)[i] = A[i]
  BY <1>1, <1>2
<1> QED
  BY <1>1, <1>3, <1>4, <1>5

Joined(A, B, E) == A \o B \o E

\* Three lists: all their checks have to pass.
LEMMA ThreeLists ==
    ASSUME NEW S, \A c \in S : c[1] \in Verdicts /\ c[1] # "accepted",
           NEW A \in Seq(S), NEW B \in Seq(S), NEW E \in Seq(S),
           NEW checks, checks = Joined(A, B, E)
    PROVE  /\ Reasons(checks)
           /\ \A i \in DOMAIN checks : checks[i][1] \in Verdicts
           /\ (\A i \in DOMAIN checks : checks[i][2]) =>
                 (\A i \in DOMAIN B : B[i][2]) /\ (\A i \in DOMAIN E : E[i][2])
<1>1. PICK AB : AB = A \o B
  OBVIOUS
<1>2. AB \in Seq(S) /\ \A i \in DOMAIN B : \E j \in DOMAIN AB : AB[j] = B[i]
  BY <1>1, ConcatenatedChecks
<1>3. checks = AB \o E
  BY <1>1 DEF Joined
<1>4. /\ checks \in Seq(S)
      /\ \A i \in DOMAIN AB : i \in DOMAIN checks /\ checks[i] = AB[i]
      /\ \A i \in DOMAIN E : \E j \in DOMAIN checks : checks[j] = E[i]
  BY <1>2, <1>3, ConcatenatedChecks
<1>5. \E n \in Nat : DOMAIN checks = 1..n
  BY <1>4
<1>6. \A i \in DOMAIN checks : checks[i] \in S
  BY <1>4
<1>7. Reasons(checks) /\ \A i \in DOMAIN checks : checks[i][1] \in Verdicts
  BY <1>5, <1>6 DEF Reasons
<1>8. ASSUME \A i \in DOMAIN checks : checks[i][2], NEW i \in DOMAIN B PROVE B[i][2]
  <2>1. PICK j \in DOMAIN AB : AB[j] = B[i]
    BY <1>2
  <2>2. j \in DOMAIN checks /\ checks[j] = AB[j]
    BY <1>4
  <2>3. checks[j][2]
    BY <1>8, <2>2
  <2> QED
    BY <2>1, <2>2, <2>3, Zenon
<1>9. ASSUME \A i \in DOMAIN checks : checks[i][2], NEW i \in DOMAIN E PROVE E[i][2]
  BY <1>4, <1>9
<1> QED
  BY <1>7, <1>8, <1>9

\* The lists, for any tests.
PolicyList(c1, c2) == << <<"header", c1>>, <<"policy", c2>> >>
ChainList(d1, d2, d3, d4, d5) ==
    << <<"invalid", d1>>, <<"expired", d2>>, <<"invalid", d3>>, <<"revoked", d4>>, <<"root", d5>> >>
ReportList(e1, e2, e3) ==
    << <<"report_signature", e1>>, <<"measurements", e2>>, <<"tcb", e3>> >>

\* Ten checks in three lists, in the order of verifySevSnp.
LEMMA TenChecks ==
    ASSUME NEW c1, NEW c2, NEW d1, NEW d2, NEW d3, NEW d4, NEW d5, NEW e1, NEW e2, NEW e3,
           NEW B, NEW checks
    PROVE  /\ B = ChainList(d1, d2, d3, d4, d5) \/ B = <<>>
           /\ checks = Joined(PolicyList(c1, c2), B, ReportList(e1, e2, e3))
           => /\ Reasons(checks)
              /\ \A i \in DOMAIN checks : checks[i][1] \in Verdicts
              /\ (\A i \in DOMAIN checks : checks[i][2]) =>
                    /\ e1
                    /\ B = ChainList(d1, d2, d3, d4, d5) => d1 /\ d2 /\ d3 /\ d4 /\ d5
<1> DEFINE A == PolicyList(c1, c2)
           D == ChainList(d1, d2, d3, d4, d5)
           E == ReportList(e1, e2, e3)
           S == {<<"header", c1>>, <<"policy", c2>>, <<"invalid", d1>>, <<"expired", d2>>,
                 <<"invalid", d3>>, <<"revoked", d4>>, <<"root", d5>>,
                 <<"report_signature", e1>>, <<"measurements", e2>>, <<"tcb", e3>>}
<1>1. \A c \in S : c[1] \in Verdicts /\ c[1] # "accepted"
  BY DEF Verdicts
<1>2. A \in Seq(S)
  BY DEF PolicyList
<1>3. /\ D \in Seq(S)
      /\ (\A i \in DOMAIN D : D[i][2]) => d1 /\ d2 /\ d3 /\ d4 /\ d5
  <2>1. 1 \in DOMAIN D /\ 2 \in DOMAIN D /\ 3 \in DOMAIN D /\ 4 \in DOMAIN D /\ 5 \in DOMAIN D
    BY DEF ChainList
  <2>2. D[1][2] = d1 /\ D[2][2] = d2 /\ D[3][2] = d3 /\ D[4][2] = d4 /\ D[5][2] = d5
    BY DEF ChainList
  <2>3. D \in Seq(S)
    BY DEF ChainList
  <2> QED
    BY <2>1, <2>2, <2>3, Zenon
<1>4. /\ E \in Seq(S)
      /\ (\A i \in DOMAIN E : E[i][2]) => e1
  <2>1. 1 \in DOMAIN E /\ E[1][2] = e1
    BY DEF ReportList
  <2>2. E \in Seq(S)
    BY DEF ReportList
  <2> QED
    BY <2>1, <2>2, Zenon
<1> HIDE DEF S, A, D, E
<1>5. <<>> \in Seq(S)
  OBVIOUS
<1>6. ASSUME A \in Seq(S), B \in Seq(S), E \in Seq(S), checks = Joined(A, B, E)
      PROVE  /\ Reasons(checks)
             /\ \A i \in DOMAIN checks : checks[i][1] \in Verdicts
             /\ (\A i \in DOMAIN checks : checks[i][2]) =>
                   (\A i \in DOMAIN B : B[i][2]) /\ (\A i \in DOMAIN E : E[i][2])
  BY <1>1, <1>6, ThreeLists
<1> QED
  BY <1>2, <1>3, <1>4, <1>5, <1>6, Zenon DEF A, D, E

\* The checks of verifySevSnp.
LEMMA SevCheckList ==
    ASSUME NEW checks, checks = SevChecks
    PROVE  /\ Reasons(checks)
           /\ \A i \in DOMAIN checks : checks[i][1] \in Verdicts
           /\ (\A i \in DOMAIN checks : checks[i][2]) =>
                 /\ embedded # <<>> => SevReportSigned(embedded[1].key)
                 /\ Len(embedded) > 1 =>
                       /\ \A i \in 1..(Len(embedded) - 1) : embedded[i].issuer = embedded[i + 1].subject
                       /\ AllCurrent(embedded)
                       /\ \A i \in 1..(Len(embedded) - 1) : Verifies(embedded[i], embedded[i + 1])
                       /\ \A i \in 2..Len(embedded) : embedded[i].ca = "yes"
                       /\ NoneRevoked(embedded)
                       /\ Len(embedded) = 3 /\ Pinned # {} => embedded[3] \in Pinned
<1> DEFINE b1 == quote.header
           b2 == /\ quote.debug => config.allowDebug
                 /\ config.maxVmpl # Unset => quote.vmpl <= config.maxVmpl
                 /\ config.enforceSmt /\ quote.smtOn => quote.smtAllowed
           b3 == \A i \in 1..(Len(embedded) - 1) : embedded[i].issuer = embedded[i + 1].subject
           b4 == AllCurrent(embedded)
           b5 == /\ \A i \in 1..(Len(embedded) - 1) : Verifies(embedded[i], embedded[i + 1])
                 /\ Len(embedded) = 3 => Verifies(embedded[3], embedded[3])
                 /\ \A i \in 2..Len(embedded) : embedded[i].ca = "yes"
           b6 == NoneRevoked(embedded)
           b7 == Len(embedded) = 3 /\ Pinned # {} => embedded[3] \in Pinned
           b8 == embedded # <<>> => SevReportSigned(embedded[1].key)
           b9 == Measured
           b10 == config.checkTcb => config.callerSaysTcb
           B == IF Len(embedded) > 1 THEN SevChain(embedded) ELSE <<>>
<1>1. SevPolicy = PolicyList(b1, b2)
  BY Zenon DEF SevPolicy, PolicyList
<1>2. SevChain(embedded) = ChainList(b3, b4, b5, b6, b7)
  BY Zenon DEF SevChain, ChainList
<1>3. SevReport = ReportList(b8, b9, b10)
  BY Zenon DEF SevReport, ReportList
<1>4. checks = Joined(PolicyList(b1, b2), B, ReportList(b8, b9, b10))
  BY <1>1, <1>3, Zenon DEF SevChecks, Joined
<1>5. /\ B = ChainList(b3, b4, b5, b6, b7) \/ B = <<>>
      /\ Len(embedded) > 1 => B = ChainList(b3, b4, b5, b6, b7)
  BY <1>2, Zenon
<1> HIDE DEF b1, b2, b3, b4, b5, b6, b7, b8, b9, b10, B
<1>6. /\ Reasons(checks)
      /\ \A i \in DOMAIN checks : checks[i][1] \in Verdicts
      /\ (\A i \in DOMAIN checks : checks[i][2]) =>
            /\ b8
            /\ B = ChainList(b3, b4, b5, b6, b7) => b3 /\ b4 /\ b5 /\ b6 /\ b7
  BY <1>4, <1>5, TenChecks
<1> QED
  BY <1>5, <1>6, Zenon DEF b3, b4, b5, b6, b7, b8

-----------------------------------------------------------------------------
(***************************************************************************)
(* The inductive invariant.                                                *)
(***************************************************************************)

\* The walk is over.
AtTheTop == Ended(Given, chain)

\* A verdict is that of the checks, on the call and the chain it is given for.
Judged ==
    pc = "done" =>
        /\ tee \in {"tdx", "sgx"} /\ chain = <<>> => verdict = "invalid" /\ Given = <<>>
        /\ tee \in {"tdx", "sgx"} /\ chain # <<>> =>
              \E certTypes : verdict = FirstFailing(IntelChecks(certTypes))
        /\ tee = "sevsnp" => verdict = FirstFailing(SevChecks)

Walking ==
    /\ call \in Calls
    /\ Climbs(Given, chain)
    /\ pc # "done" => verdict = "none"
    /\ pc = "leaf" => chain = <<>>
    /\ pc \in {"leaf", "walk"} => tee # "sevsnp"
    /\ pc = "walk" \/ (pc = "judge" /\ tee # "sevsnp") => chain # <<>>
    /\ chain # <<>> => tee # "sevsnp" /\ Given # <<>> /\ chain[1] = LeafIndex
    /\ pc \in {"judge", "done"} /\ chain # <<>> => AtTheTop

CallInv == TypeOK /\ Walking /\ Judged

LEMMA GivenIsAList ==
    ASSUME call \in Calls
    PROVE  /\ Given \in Seq(Certs) /\ Len(Given) \in Nat /\ DOMAIN Given = 1..Len(Given)
           /\ tee \in {"tdx", "sgx", "sevsnp"}
<1>1. Given \in Seq(Certs)
  BY CallsAssumption DEF Given, embedded, config
<1>2. tee \in {"tdx", "sgx", "sevsnp"}
  BY CallsAssumption DEF tee
<1> QED
  BY <1>1, <1>2

LEMMA IssuersOfGiven == \A i : IssuersOf(i) = IssuersIn(Given, i)
BY DEF IssuersOf, IssuersIn

LEMMA LeafIsGiven ==
    ASSUME call \in Calls, Given # <<>>
    PROVE  LeafIndex \in DOMAIN Given
<1>1. Given \in Seq(Certs) /\ Len(Given) \in Nat /\ DOMAIN Given = 1..Len(Given)
  BY GivenIsAList
<1>2. 1 \in DOMAIN Given
  BY <1>1
<1>3. Leaves \in SUBSET Nat /\ Leaves \subseteq DOMAIN Given
  BY <1>1 DEF Leaves
<1>4. Leaves # {} => First(Leaves) \in Leaves
  BY <1>3, FirstIsLeast
<1> QED
  BY <1>2, <1>3, <1>4 DEF LeafIndex

\* What is computed from the call alone stays what it is.
LEMMA CallStays ==
    ASSUME call' = call
    PROVE  /\ Given' = Given /\ tee' = tee /\ embedded' = embedded /\ quote' = quote /\ config' = config
           /\ LeafIndex' = LeafIndex
<1>1. Given' = Given /\ tee' = tee /\ embedded' = embedded /\ quote' = quote /\ config' = config
  BY DEF Given, tee, embedded, quote, config
<1>2. Leaves' = Leaves
  BY <1>1 DEF Leaves, IssuersOf
<1>3. LeafIndex' = LeafIndex
  BY <1>2 DEF LeafIndex
<1> QED
  BY <1>1, <1>3

\* So do the checks, for the same chain.
LEMMA ChecksStay ==
    ASSUME call' = call, chain' = chain
    PROVE  /\ \A certTypes : IntelChecks(certTypes)' = IntelChecks(certTypes)
           /\ SevChecks' = SevChecks
<1>1. Given' = Given /\ tee' = tee /\ embedded' = embedded /\ quote' = quote /\ config' = config
  BY CallStays
<1>2. Path' = Path
  BY <1>1 DEF Path
<1>3. /\ QeReportSigned' = QeReportSigned /\ QeReportBound' = QeReportBound
      /\ QuoteSigned' = QuoteSigned /\ Measured' = Measured /\ TcbAccepted' = TcbAccepted
  <2>1. QeReportSigned' = QeReportSigned /\ QeReportBound' = QeReportBound /\ QuoteSigned' = QuoteSigned
    BY <1>1, <1>2 DEF QeReportSigned, QeReportBound, QuoteSigned
  <2>2. Measured' = Measured
    BY <1>1, Zenon DEF Measured
  <2>3. PceSvn' = PceSvn
    BY <1>1, <1>2 DEF PceSvn
  <2>4. TcbAccepted' = TcbAccepted
    BY <1>1, <2>3, Zenon DEF TcbAccepted
  <2> QED
    BY <2>1, <2>2, <2>4
<1>4. /\ AllCurrent(Path)' = AllCurrent(Path) /\ NoneRevoked(Path)' = NoneRevoked(Path)
      /\ PathIsSound(Path)' = PathIsSound(Path)
  <2>1. AllCurrent(Path)' = AllCurrent(Path)
    BY <1>2 DEF AllCurrent
  <2>2. NoneRevoked(Path)' = NoneRevoked(Path)
    BY <1>1, <1>2, Zenon DEF NoneRevoked
  <2>3. PathIsSound(Path)' = PathIsSound(Path)
    BY <1>2, Zenon
  <2> QED
    BY <2>1, <2>2, <2>3
<1>5. ASSUME NEW certTypes PROVE IntelChecks(certTypes)' = IntelChecks(certTypes)
  BY <1>1, <1>2, <1>3, <1>4, Zenon DEF IntelChecks
<1>6. SevPolicy' = SevPolicy
  BY <1>1, Zenon DEF SevPolicy
<1>7. SevChain(embedded)' = SevChain(embedded)
  <2>1. AllCurrent(embedded)' = AllCurrent(embedded)
    BY <1>1 DEF AllCurrent
  <2>2. NoneRevoked(embedded)' = NoneRevoked(embedded)
    BY <1>1, Zenon DEF NoneRevoked
  <2> QED
    BY <1>1, <2>1, <2>2, Zenon DEF SevChain
<1>8. SevReport' = SevReport
  BY <1>1, <1>3, Zenon DEF SevReport, SevReportSigned
<1> QED
  BY <1>1, <1>5, <1>6, <1>7, <1>8, Zenon DEF SevChecks

LEMMA InitEstablishesCallInv == Init => CallInv
<1> SUFFICES ASSUME Init PROVE CallInv
  OBVIOUS
<1>1. tee \in {"tdx", "sgx", "sevsnp"}
  BY GivenIsAList DEF Init
<1>2. TypeOK
  BY <1>1 DEF Init, TypeOK
<1>3. Climbs(Given, chain)
  BY DEF Init, Climbs
<1>4. Walking
  BY <1>1, <1>3 DEF Init, Walking
<1>5. Judged
  BY DEF Init, Judged
<1> QED
  BY <1>2, <1>4, <1>5 DEF CallInv

LEMMA FindLeafKeepsCallInv == CallInv /\ FindLeaf => CallInv'
<1> SUFFICES ASSUME CallInv, FindLeaf PROVE CallInv'
  OBVIOUS
<1>1. call' = call /\ call \in Calls /\ pc = "leaf" /\ chain = <<>> /\ verdict = "none" /\ tee # "sevsnp"
  BY DEF CallInv, Walking, FindLeaf, Conclude
<1>2. Given' = Given /\ tee' = tee /\ LeafIndex' = LeafIndex
  BY <1>1, CallStays
<1>3. CASE Given # <<>> /\ chain' = <<LeafIndex>> /\ pc' = "walk" /\ verdict' = verdict
  <2>1. LeafIndex \in DOMAIN Given
    BY <1>1, <1>3, LeafIsGiven
  <2>2. TypeOK'
    BY <1>1, <1>2, <1>3, <2>1 DEF CallInv, TypeOK
  <2>3. Climbs(Given, <<LeafIndex>>)
    BY DEF Climbs
  <2>4. Climbs(Given, chain)'
    BY <1>2, <1>3, <2>3
  <2>5. Walking'
    BY <1>1, <1>2, <1>3, <2>4 DEF Walking
  <2> QED
    BY <1>3, <2>2, <2>5 DEF CallInv, Judged
<1>4. CASE Given = <<>> /\ Conclude("invalid")
  <2>1. TypeOK'
    BY <1>1, <1>2, <1>4 DEF CallInv, TypeOK, Conclude
  <2>2. Climbs(Given, chain)'
    BY <1>2, <1>4 DEF CallInv, Walking, Conclude
  <2>3. Walking'
    BY <1>1, <1>2, <1>4, <2>2 DEF Walking, Conclude
  <2>4. Judged'
    BY <1>1, <1>2, <1>4 DEF Judged, Conclude
  <2> QED
    BY <2>1, <2>3, <2>4 DEF CallInv
<1> QED
  BY <1>3, <1>4 DEF FindLeaf

LEMMA WalkKeepsCallInv == CallInv /\ Walk => CallInv'
<1> SUFFICES ASSUME CallInv, Walk PROVE CallInv'
  OBVIOUS
<1>1. /\ call' = call /\ call \in Calls /\ pc = "walk" /\ verdict' = verdict /\ verdict = "none"
      /\ chain # <<>> /\ tee # "sevsnp" /\ Climbs(Given, chain) /\ chain \in Seq(DOMAIN Given)
  BY DEF CallInv, Walking, Walk, TypeOK
<1>2. Given' = Given /\ tee' = tee /\ LeafIndex' = LeafIndex
  BY <1>1, CallStays
<1>3. PICK current : current = chain[Len(chain)]
  OBVIOUS
<1>4. PICK parents : parents = IssuersIn(Given, current) /\ parents = IssuersOf(current)
  BY IssuersOfGiven
<1>5. CASE (parents = {} \/ First(parents) = current) /\ pc' = "judge" /\ chain' = chain
  <2>1. AtTheTop'
    BY <1>2, <1>3, <1>4, <1>5 DEF AtTheTop, Ended
  <2>2. TypeOK'
    BY <1>1, <1>2, <1>5 DEF CallInv, TypeOK
  <2>3. Walking'
    BY <1>1, <1>2, <1>5, <2>1 DEF CallInv, Walking
  <2> QED
    BY <1>5, <2>2, <2>3 DEF CallInv, Judged
<1>6. CASE parents # {} /\ First(parents) # current /\ chain' = Append(chain, First(parents)) /\ pc' = pc
  <2>1. current \in DOMAIN Given
    BY <1>1, <1>3
  <2>2. First(parents) \in DOMAIN Given
    BY <1>1, <1>4, <1>6, <2>1, FirstIssuer, GivenIsAList
  <2>3. PICK x : x = First(parents)
    OBVIOUS
  <2>4. /\ chain' \in Seq(DOMAIN Given) /\ chain' # <<>> /\ chain'[1] = chain[1]
    BY <1>1, <1>6, <2>2, <2>3
  <2>5. Climbs(Given, chain')
    BY <1>1, <1>3, <1>4, <1>6, WalkClimbs, GivenIsAList
  <2>6. TypeOK'
    BY <1>1, <1>2, <1>6, <2>4 DEF CallInv, TypeOK
  <2>7. Walking'
    BY <1>1, <1>2, <1>6, <2>4, <2>5 DEF CallInv, Walking
  <2> QED
    BY <1>1, <1>6, <2>6, <2>7 DEF CallInv, Judged
<1> QED
  BY <1>1, <1>3, <1>4, <1>5, <1>6 DEF Walk

\* A verdict of the checks ends the call.
LEMMA JudgingKeepsCallInv ==
    ASSUME CallInv, pc = "judge", NEW v, Conclude(v), v \in Verdicts,
           tee \in {"tdx", "sgx"} => \E certTypes : v = FirstFailing(IntelChecks(certTypes)),
           tee = "sevsnp" => v = FirstFailing(SevChecks)
    PROVE  CallInv'
<1>1. call' = call /\ chain' = chain /\ call \in Calls /\ verdict' = v /\ pc' = "done"
  BY DEF CallInv, Walking, Conclude
<1>2. Given' = Given /\ tee' = tee /\ LeafIndex' = LeafIndex
  BY <1>1, CallStays
<1>3. TypeOK'
  BY <1>1, <1>2 DEF CallInv, TypeOK, Verdicts
<1>4. AtTheTop' = AtTheTop
  BY <1>1, <1>2, Zenon DEF AtTheTop
<1>5. Walking'
  BY <1>1, <1>2, <1>4 DEF CallInv, Walking
<1>6. Judged'
  <2>1. tee \in {"tdx", "sgx"} => chain # <<>>
    BY DEF CallInv, Walking
  <2>2. tee \in {"tdx", "sgx"} => \E certTypes : v = FirstFailing(IntelChecks(certTypes)')
    BY <1>1, ChecksStay
  <2>3. tee = "sevsnp" => v = FirstFailing(SevChecks')
    BY <1>1, ChecksStay
  <2> QED
    BY <1>1, <1>2, <2>1, <2>2, <2>3 DEF Judged
<1> QED
  BY <1>3, <1>5, <1>6 DEF CallInv

LEMMA NextKeepsCallInv == CallInv /\ [Next]_vars => CallInv'
<1> SUFFICES ASSUME CallInv, [Next]_vars PROVE CallInv'
  OBVIOUS
<1>1. ASSUME NEW certTypes PROVE FirstFailing(IntelChecks(certTypes)) \in Verdicts
  BY IntelCheckList, VerdictIsOfACheck
<1>2. CASE FindLeaf
  BY <1>2, FindLeafKeepsCallInv
<1>3. CASE Walk
  BY <1>3, WalkKeepsCallInv
<1>4. CASE JudgeTdx
  <2>1. PICK v : v = FirstFailing(IntelChecks({5}))
    OBVIOUS
  <2> QED
    BY <1>1, <1>4, <2>1, JudgingKeepsCallInv DEF JudgeTdx
<1>5. CASE JudgeSgx
  <2>1. PICK v : v = FirstFailing(IntelChecks({1, 5}))
    OBVIOUS
  <2> QED
    BY <1>1, <1>5, <2>1, JudgingKeepsCallInv DEF JudgeSgx
<1>6. CASE JudgeSevSnp
  <2>1. FirstFailing(SevChecks) \in Verdicts
    BY SevCheckList, VerdictIsOfACheck
  <2>2. PICK v : v = FirstFailing(SevChecks)
    OBVIOUS
  <2> QED
    BY <1>6, <2>1, <2>2, JudgingKeepsCallInv DEF JudgeSevSnp
<1>7. CASE UNCHANGED vars
  <2>1. call' = call /\ chain' = chain /\ pc' = pc /\ verdict' = verdict
    BY <1>7 DEF vars
  <2>2. Given' = Given /\ tee' = tee /\ LeafIndex' = LeafIndex
    BY <2>1, CallStays
  <2>3. AtTheTop' = AtTheTop
    BY <2>1, <2>2, Zenon DEF AtTheTop
  <2>4. TypeOK' /\ Walking'
    BY <2>1, <2>2, <2>3 DEF CallInv, TypeOK, Walking
  <2>5. Judged'
    BY <2>1, <2>2, ChecksStay, Zenon DEF CallInv, Judged
  <2> QED
    BY <2>4, <2>5 DEF CallInv
<1> QED
  BY <1>2, <1>3, <1>4, <1>5, <1>6, <1>7 DEF Next

\* Every call keeps to the walk and to the checks.
THEOREM CallInvariance == Spec => []CallInv
BY InitEstablishesCallInv, NextKeepsCallInv, PTL DEF Spec

-----------------------------------------------------------------------------
(***************************************************************************)
(* What an accepted quote rests on.                                        *)
(***************************************************************************)

LEMMA PathOfTheChain ==
    ASSUME call \in Calls, chain \in Seq(DOMAIN Given)
    PROVE  /\ Path \in Seq(Certs) /\ Len(Path) = Len(chain) /\ DOMAIN Path = DOMAIN chain
           /\ \A i \in DOMAIN chain : Path[i] = Given[chain[i]]
<1>1. Given \in Seq(Certs)
  BY GivenIsAList
<1>2. \A i \in DOMAIN chain : chain[i] \in DOMAIN Given /\ Given[chain[i]] \in Certs
  BY <1>1
<1>3. DOMAIN chain = 1..Len(chain) /\ Len(chain) \in Nat
  OBVIOUS
<1>4. Path \in [1..Len(chain) -> Certs]
  BY <1>2, <1>3 DEF Path
<1>5. Path \in Seq(Certs) /\ Len(Path) = Len(chain)
  BY <1>3, <1>4
<1> QED
  BY <1>5 DEF Path

LEMMA ChainIsAPath ==
    ASSUME CallInv, chain # <<>>, AtTheTop
    PROVE  chain \in Paths /\ \A i \in 1..(Len(chain) - 1) :
              Given[chain[i]].issuer = Given[chain[i + 1]].subject
<1>1. /\ call \in Calls /\ chain \in Seq(DOMAIN Given) /\ Climbs(Given, chain)
      /\ Given \in Seq(Certs) /\ Len(Given) \in Nat
  BY GivenIsAList DEF CallInv, TypeOK, Walking
<1>2. (\A i, j \in DOMAIN chain : chain[i] = chain[j] => i = j) /\ Len(chain) <= Len(Given)
  BY <1>1, EndedIsNotTrapped, ClimbsWithoutRepetition DEF AtTheTop
<1>3. DOMAIN chain = 1..Len(chain) /\ Len(chain) \in 1..Len(Given)
  BY <1>1, <1>2
<1>4. chain \in [1..Len(chain) -> DOMAIN Given]
  BY <1>1, <1>3
<1>5. chain \in Paths
  BY <1>2, <1>3, <1>4 DEF Paths
<1>6. ASSUME NEW i \in 1..(Len(chain) - 1)
      PROVE  Given[chain[i]].issuer = Given[chain[i + 1]].subject
  <2>1. i \in DOMAIN chain /\ i + 1 \in DOMAIN chain
    BY <1>3
  <2>2. chain[i] \in DOMAIN Given
    BY <1>1, <2>1
  <2>3. IssuersIn(Given, chain[i]) # {} /\ chain[i + 1] = First(IssuersIn(Given, chain[i]))
    BY <1>1, <2>1 DEF Climbs
  <2> QED
    BY <1>1, <2>2, <2>3, FirstIssuer
<1> QED
  BY <1>5, <1>6

LEMMA SoundChainIsTrusted ==
    ASSUME CallInv, chain # <<>>, AtTheTop, AllCurrent(Path), PathIsSound(Path), NoneRevoked(Path),
           Path[Len(Path)] \in Pinned
    PROVE  IsTrustPath(chain)
<1>1. /\ call \in Calls /\ chain \in Seq(DOMAIN Given)
      /\ DOMAIN chain = 1..Len(chain) /\ Len(chain) \in Nat /\ Len(chain) >= 1
  BY DEF CallInv, TypeOK, Walking
<1>2. /\ Len(Path) = Len(chain) /\ DOMAIN Path = DOMAIN chain
      /\ \A i \in DOMAIN chain : Path[i] = Given[chain[i]]
  BY <1>1, PathOfTheChain
<1>3. \A crl \in config.crls : crl.entries \in Seq(CrlEntries(Nat))
  BY <1>1, CallsAssumption DEF config
<1>4. ASSUME NEW i \in DOMAIN chain PROVE Path[i].current /\ ~Named(Path[i], IntactCrls)
  <2>1. Path[i].current
    BY <1>2 DEF AllCurrent
  <2>2. Path[i].serial \notin Revoked(config.crls)
    BY <1>2 DEF NoneRevoked
  <2> QED
    BY <1>3, <2>1, <2>2, IntactCrlsRevoke
<1>5. ASSUME NEW i \in 1..(Len(chain) - 1)
      PROVE  /\ Path[i].issuer = Path[i + 1].subject
             /\ Path[i].signer = Path[i + 1].key
             /\ Path[i + 1].ca = "yes"
  <2>1. i \in DOMAIN chain /\ i + 1 \in DOMAIN chain /\ i + 1 \in 2..Len(Path) /\ i \in 1..(Len(Path) - 1)
    BY <1>1, <1>2
  <2>2. Given[chain[i]].issuer = Given[chain[i + 1]].subject
    BY ChainIsAPath
  <2>3. Path[i].signer = Path[i + 1].key /\ Path[i + 1].ca = "yes"
    BY <2>1 DEF PathIsSound, Verifies
  <2> QED
    BY <1>2, <2>1, <2>2, <2>3
<1> QED
  BY <1>2, <1>4, <1>5 DEF IsTrustPath, Path

\* verifyTdx and verifySgx accept a quote only on a trust path, whatever the list of
\* certificates: the path is the chain of verifyPCKChain itself.
THEOREM AcceptedQuotesAreTrusted == Spec => []AcceptedIsTrusted
<1>1. CallInv => AcceptedIsTrusted
  <2> SUFFICES ASSUME CallInv, verdict = "accepted", tee \in {"tdx", "sgx"}
               PROVE  /\ \E p \in Paths : IsTrustPath(p) /\ Given[p[1]].key = quote.signer
                      /\ quote.bound /\ quote.signed /\ quote.header
                      /\ config.checkTcb =>
                            /\ config.tcbInfo.now \in config.tcbInfo.issueDate..config.tcbInfo.nextUpdate
                            /\ \E i \in DOMAIN config.tcbInfo.levels :
                                  /\ config.tcbInfo.levels[i].status \in GoodStatus
                                  /\ Meets(config.tcbInfo.levels[i], quote.svn, PceSvn, tee = "tdx")
                      /\ config.measured => \E item \in config.items : Matches(item, quote.body)
    BY DEF AcceptedIsTrusted
  <2>1. pc = "done" /\ chain # <<>> /\ AtTheTop /\ call \in Calls /\ chain \in Seq(DOMAIN Given)
    BY DEF CallInv, Walking, Judged, TypeOK
  <2>2. PICK certTypes : FirstFailing(IntelChecks(certTypes)) = "accepted"
    BY <2>1 DEF CallInv, Judged
  <2>3. \A i \in DOMAIN IntelChecks(certTypes) : IntelChecks(certTypes)[i][2]
    BY <2>2, IntelCheckList, AcceptedPassesAll
  <2>4. /\ AllCurrent(Path) /\ PathIsSound(Path) /\ NoneRevoked(Path)
        /\ Path[Len(Path)] \in Pinned
        /\ quote.header /\ QeReportSigned /\ QeReportBound /\ QuoteSigned
        /\ TcbAccepted /\ Measured
    BY <2>3, IntelCheckList
  <2>5. chain \in Paths /\ IsTrustPath(chain)
    BY <2>1, <2>4, ChainIsAPath, SoundChainIsTrusted
  <2>6. Given[chain[1]].key = quote.signer
    <3>1. 1 \in DOMAIN chain
      BY <2>1
    <3> QED
      BY <2>1, <2>4, <3>1, PathOfTheChain DEF QeReportSigned
  <2>7. ASSUME config.checkTcb
        PROVE  /\ config.tcbInfo.now \in config.tcbInfo.issueDate..config.tcbInfo.nextUpdate
               /\ \E i \in DOMAIN config.tcbInfo.levels :
                     /\ config.tcbInfo.levels[i].status \in GoodStatus
                     /\ Meets(config.tcbInfo.levels[i], quote.svn, PceSvn, tee = "tdx")
    <3>1. verifyTcb(config.tcbInfo, quote.svn, PceSvn, tee = "tdx")
      BY <2>4, <2>7 DEF TcbAccepted
    <3>2. /\ config.tcbInfo.levels \in Seq(Levels)
          /\ config.tcbInfo.now \in Int /\ config.tcbInfo.issueDate \in Int
          /\ config.tcbInfo.nextUpdate \in Int
      BY <2>1, CallsAssumption DEF config
    <3>3. config.tcbInfo.now \in config.tcbInfo.issueDate..config.tcbInfo.nextUpdate
      BY <3>1, <3>2 DEF verifyTcb, isTcbInfoFresh
    <3>4. PICK isTdx : isTdx = (tee = "tdx")
      OBVIOUS
    <3>5. getTcbStatus(config.tcbInfo.levels, quote.svn, PceSvn, isTdx) \in GoodStatus
      BY <3>1, <3>4, Zenon DEF verifyTcb
    <3>6. \E i \in DOMAIN config.tcbInfo.levels :
             /\ Meets(config.tcbInfo.levels[i], quote.svn, PceSvn, isTdx)
             /\ config.tcbInfo.levels[i].status \in GoodStatus
      BY <3>2, <3>5, GoodStatusIsMet
    <3> QED
      BY <3>3, <3>4, <3>6, Zenon
  <2>8. config.measured => \E item \in config.items : Matches(item, quote.body)
    BY <2>4 DEF Measured, verifyMeasurements
  <2> QED
    BY <2>4, <2>5, <2>6, <2>7, <2>8 DEF QeReportBound, QuoteSigned
<1> QED
  BY <1>1, CallInvariance, PTL

\* A refusal for the TCB holds for every platform that is behind in no matter which
\* components, for any levels in the order of Intel's lists.
THEOREM TcbVerdictsAreMonotone == Spec => []TcbVerdictIsMonotone
<1>1. CallInv => TcbVerdictIsMonotone
  <2> SUFFICES ASSUME CallInv, verdict = "tcb", tee \in {"tdx", "sgx"}, GoodFirst(config.tcbInfo.levels),
                      NEW svn \in [Components -> Svns], NEW pceSvn \in Svns,
                      \A c \in Components : svn[c] <= quote.svn[c], pceSvn <= PceSvn,
                      verifyTcb(config.tcbInfo, svn, pceSvn, tee = "tdx")
               PROVE  FALSE
    BY DEF TcbVerdictIsMonotone
  <2>1. pc = "done" /\ chain # <<>> /\ call \in Calls /\ chain \in Seq(DOMAIN Given)
    BY DEF CallInv, Walking, Judged, TypeOK
  <2>2. PICK certTypes : FirstFailing(IntelChecks(certTypes)) = "tcb"
    BY <2>1 DEF CallInv, Judged
  <2>3. PICK checks : checks = IntelChecks(certTypes)
    OBVIOUS
  <2>4. \E i \in DOMAIN checks : checks[i][1] = "tcb" /\ ~checks[i][2]
    BY <2>2, <2>3, IntelCheckList, RefusedFailsOne
  <2>5. ~TcbAccepted
    BY <2>3, <2>4, IntelCheckList
  <2>6. PICK isTdx \in BOOLEAN : isTdx = (tee = "tdx")
    OBVIOUS
  <2>7. ~verifyTcb(config.tcbInfo, quote.svn, PceSvn, isTdx)
    BY <2>5, <2>6, Zenon DEF TcbAccepted
  <2>8. verifyTcb(config.tcbInfo, svn, pceSvn, isTdx)
    BY <2>6, Zenon
  <2>9. /\ config.tcbInfo.levels \in Seq(Levels) /\ quote.svn \in [Components -> Svns]
        /\ quote.pceSvn \in Int
    BY <2>1, CallsAssumption, CertsAssumption DEF config, quote, Svns
  <2>10. PceSvn \in Int /\ pceSvn \in Int
    <3>1. 1 \in DOMAIN chain
      BY <2>1
    <3>2. Path[1] \in Certs
      BY <2>1, <3>1, PathOfTheChain
    <3>3. Path[1].pceSvn \in Int
      BY <3>2, CertsAssumption DEF Unset
    <3> QED
      BY <2>9, <3>3, CertsAssumption DEF PceSvn, Svns
  <2> QED
    BY <2>7, <2>8, <2>9, <2>10, VerifyTcbIsMonotone
<1> QED
  BY <1>1, CallInvariance, PTL

\* verifySevSnp with all three certificates accepts only what a path to a pinned ARK
\* vouches for.
THEOREM SevAcceptedReportsAreTrusted == Spec => []SevAcceptedIsTrusted
<1>1. CallInv => SevAcceptedIsTrusted
  <2> SUFFICES ASSUME CallInv, verdict = "accepted", tee = "sevsnp", Len(embedded) = 3, Pinned # {}
               PROVE  IsTrustPath(<<1, 2, 3>>) /\ embedded[1].key = quote.signer /\ quote.signed
    BY DEF SevAcceptedIsTrusted
  <2>1. pc = "done" /\ call \in Calls
    BY DEF CallInv, Walking
  <2>2. FirstFailing(SevChecks) = "accepted"
    BY <2>1 DEF CallInv, Judged
  <2>3. PICK checks : checks = SevChecks
    OBVIOUS
  <2>4. \A i \in DOMAIN checks : checks[i][2]
    BY <2>2, <2>3, SevCheckList, AcceptedPassesAll
  <2>5. embedded \in Seq(Certs) /\ embedded # <<>> /\ DOMAIN embedded = 1..3
    <3>1. embedded \in Seq(Certs)
      BY <2>1, CallsAssumption DEF embedded
    <3> QED
      BY <3>1
  <2>6. /\ SevReportSigned(embedded[1].key)
        /\ \A i \in 1..(Len(embedded) - 1) : embedded[i].issuer = embedded[i + 1].subject
        /\ AllCurrent(embedded)
        /\ \A i \in 1..(Len(embedded) - 1) : Verifies(embedded[i], embedded[i + 1])
        /\ \A i \in 2..Len(embedded) : embedded[i].ca = "yes"
        /\ NoneRevoked(embedded)
        /\ embedded[3] \in Pinned
    BY <2>3, <2>4, <2>5, SevCheckList
  <2>7. Given = embedded
    BY <2>5 DEF Given
  <2>8. \A crl \in config.crls : crl.entries \in Seq(CrlEntries(Nat))
    BY <2>1, CallsAssumption DEF config
  <2>9. ASSUME NEW i \in 1..3 PROVE embedded[i].current /\ ~Named(embedded[i], IntactCrls)
    <3>1. embedded[i].current /\ embedded[i].serial \notin Revoked(config.crls)
      BY <2>5, <2>6 DEF AllCurrent, NoneRevoked
    <3> QED
      BY <2>8, <3>1, IntactCrlsRevoke
  <2>10. ASSUME NEW i \in 1..2
         PROVE  /\ embedded[i].issuer = embedded[i + 1].subject
                /\ embedded[i].signer = embedded[i + 1].key
                /\ embedded[i + 1].ca = "yes"
    <3>1. i \in 1..(Len(embedded) - 1) /\ i + 1 \in 2..Len(embedded)
      OBVIOUS
    <3> QED
      BY <2>6, <3>1 DEF Verifies
  <2>11. IsTrustPath(<<1, 2, 3>>)
    <3>1. PICK p : p = <<1, 2, 3>>
      OBVIOUS
    <3>2. DOMAIN p = 1..3 /\ Len(p) = 3 /\ \A i \in 1..3 : p[i] = i
      BY <3>1
    <3>3. [i \in DOMAIN p |-> Given[p[i]]] = [i \in 1..3 |-> embedded[i]]
      BY <2>7, <3>2
    <3>4. PICK path : path = [i \in DOMAIN p |-> Given[p[i]]]
      OBVIOUS
    <3>5. \A i \in 1..3 : path[i] = embedded[i]
      BY <3>3, <3>4
    <3>6. \A i \in DOMAIN p : path[i].current /\ ~Named(path[i], IntactCrls)
      BY <2>9, <3>2, <3>5
    <3>7. \A i \in 1..(Len(p) - 1) : /\ path[i].issuer = path[i + 1].subject
                                     /\ path[i].signer = path[i + 1].key
                                     /\ path[i + 1].ca = "yes"
      <4> TAKE i \in 1..(Len(p) - 1)
      <4>1. i \in 1..2 /\ i \in 1..3 /\ i + 1 \in 1..3
        BY <3>2
      <4> QED
        BY <2>10, <3>5, <4>1
    <3>8. path[Len(p)] \in Pinned
      BY <2>6, <3>2, <3>5
    <3> QED
      BY <3>1, <3>4, <3>6, <3>7, <3>8 DEF IsTrustPath
  <2> QED
    BY <2>6, <2>11 DEF SevReportSigned
<1> QED
  BY <1>1, CallInvariance, PTL

-----------------------------------------------------------------------------
(***************************************************************************)
(* The order of the certificates.                                          *)
(***************************************************************************)

\* The path that is all that was presented, as the lemmas on the walk speak of it.
LEMMA PresentedIsOnePath ==
    ASSUME call \in Calls, NEW p \in Paths, OnlyPathPresented(p)
    PROVE  OnePath(Given, p) /\ DOMAIN p = 1..Len(Given) /\ Given # <<>> /\ Len(p) = Len(Given)
<1>1. Given \in Seq(Certs) /\ Len(Given) \in Nat /\ DOMAIN Given = 1..Len(Given)
  BY GivenIsAList
<1>2. PICK n \in 1..Len(Given) : p \in [1..n -> DOMAIN Given] /\ \A i, j \in 1..n : p[i] = p[j] => i = j
  BY DEF Paths
<1>3. n \in Nat /\ Len(p) = n
  BY <1>1, <1>2
<1>4. n = Len(Given)
  BY <1>3 DEF OnlyPathPresented
<1>5. DOMAIN p = 1..Len(Given)
  BY <1>2, <1>4
<1>6. Given # <<>>
  <2>1. Len(Given) >= 1
    BY <1>1, <1>2
  <2> QED
    BY <1>1, <2>1
<1>7. ASSUME NEW i \in 1..(Len(Given) - 1)
      PROVE  Given[p[i]].issuer = Given[p[i + 1]].subject
  <2>1. i \in DOMAIN p /\ i + 1 \in DOMAIN p /\ i \in 1..(Len(p) - 1)
    BY <1>1, <1>3, <1>4, <1>5
  <2> QED
    BY <2>1 DEF OnlyPathPresented, IsTrustPath
<1> QED
  BY <1>2, <1>3, <1>4, <1>5, <1>6, <1>7 DEF OnePath, OnlyPathPresented

\* From it the leaf is found at the bottom, if the top names nobody else.
LEMMA LeafOfOnePath ==
    ASSUME call \in Calls, Given # <<>>, NEW p, OnePath(Given, p),
           IssuersIn(Given, p[Len(Given)]) \subseteq {p[Len(Given)]}
    PROVE  LeafIndex = p[1]
<1>1. Given \in Seq(Certs) /\ Len(Given) \in Nat /\ DOMAIN Given = 1..Len(Given) /\ Len(Given) >= 1
  BY GivenIsAList
<1>2. p[1] \in DOMAIN Given
  BY <1>1 DEF OnePath
<1>3. \A k \in DOMAIN Given : k # p[1] => \E j \in DOMAIN Given : k \in IssuersIn(Given, j)
  BY <1>1, OnePathHasOneLeaf
<1>4. Leaves \subseteq {p[1]}
  BY <1>3, IssuersOfGiven DEF Leaves
<1>5. CASE Len(Given) > 1
  <2>1. \A j \in DOMAIN Given : p[1] \notin IssuersIn(Given, j)
    BY <1>1, <1>5, OnePathHasOneLeaf
  <2>2. Leaves = {p[1]}
    BY <1>2, <1>4, <2>1, IssuersOfGiven DEF Leaves
  <2>3. Leaves \in SUBSET Nat
    BY <1>1 DEF Leaves
  <2> QED
    BY <2>2, <2>3, FirstIsLeast DEF LeafIndex
<1>6. CASE Len(Given) = 1
  <2>1. p[1] = 1
    BY <1>1, <1>2, <1>6
  <2>2. Leaves \in SUBSET Nat
    BY <1>1 DEF Leaves
  <2>3. Leaves # {} => First(Leaves) = 1
    BY <1>4, <2>1, <2>2, FirstIsLeast
  <2> QED
    BY <2>1, <2>3 DEF LeafIndex
<1> QED
  BY <1>1, <1>5, <1>6

\* Whatever the order, a sound path that is all that was presented passes.
LEMMA OrderIsImmaterial == CallInv => OrderDoesNotMatter
<1> SUFFICES ASSUME CallInv, pc = "done", tee \in {"tdx", "sgx"},
                    NEW p \in Paths, OnlyPathPresented(p),
                    verdict \in {"expired", "invalid", "revoked", "root"}
             PROVE  FALSE
  BY DEF OrderDoesNotMatter
<1>1. /\ call \in Calls /\ chain \in Seq(DOMAIN Given) /\ Climbs(Given, chain)
      /\ Given \in Seq(Certs)
  BY GivenIsAList DEF CallInv, TypeOK, Walking
<1>2. OnePath(Given, p) /\ DOMAIN p = 1..Len(Given) /\ Given # <<>> /\ Len(p) = Len(Given)
  BY <1>1, PresentedIsOnePath
<1>3. chain # <<>> /\ AtTheTop /\ chain[1] = LeafIndex
  BY <1>2 DEF CallInv, Judged, Walking
<1>4. chain[1] = p[1]
  BY <1>1, <1>2, <1>3, EndsAtTheTop, LeafOfOnePath DEF AtTheTop
<1>5. DOMAIN chain = 1..Len(Given) /\ \A i \in DOMAIN chain : chain[i] = p[i]
  BY <1>1, <1>2, <1>3, <1>4, WalkFindsThePath DEF AtTheTop
<1>6. Path = [i \in DOMAIN p |-> Given[p[i]]]
  BY <1>2, <1>5 DEF Path
<1>7. Len(Path) = Len(p) /\ DOMAIN Path = DOMAIN p
  BY <1>1, <1>2, <1>5, PathOfTheChain
<1>8. AllCurrent(Path)
  BY <1>6, <1>7 DEF OnlyPathPresented, IsTrustPath, AllCurrent
<1>9. PathIsSound(Path)
  BY <1>6, Zenon DEF OnlyPathPresented
<1>10. NoneRevoked(Path)
  <2>1. \A i \in DOMAIN p : ~Named(Path[i], config.crls)
    BY <1>6 DEF OnlyPathPresented
  <2> QED
    BY <1>7, <2>1, RevokedIsNamed DEF NoneRevoked
<1>11. Path[Len(Path)] \in Pinned
  BY <1>6, <1>7, Zenon DEF OnlyPathPresented, IsTrustPath
<1>12. PICK certTypes : FirstFailing(IntelChecks(certTypes)) = verdict
  BY <1>3 DEF CallInv, Judged
<1>13. PICK checks : checks = IntelChecks(certTypes)
  OBVIOUS
<1>14. PICK i \in DOMAIN checks : checks[i][1] = verdict /\ ~checks[i][2]
  BY <1>12, <1>13, IntelCheckList, RefusedFailsOne
<1>15. \E j \in DOMAIN checks :
           checks[j][1] \in {"expired", "invalid", "revoked", "root"} /\ ~checks[j][2]
  BY <1>14
<1> QED
  BY <1>8, <1>9, <1>10, <1>11, <1>13, <1>15, IntelCheckList

\* GoesRound, of a walk that has begun.
LEMMA GoingRoundIsTrapped ==
    ASSUME call \in Calls, chain # <<>>, chain[1] = LeafIndex
    PROVE  GoesRound => Trapped(Given, chain[1])
BY IssuersOfGiven, Zenon DEF GoesRound, Trapped, Keeps

\* And back: nothing is given that is never left, unless the walk goes round.
LEMMA TrappedGoesRound ==
    ASSUME call \in Calls, tee # "sevsnp", chain[1] = LeafIndex, Trapped(Given, chain[1])
    PROVE  GoesRound
BY IssuersOfGiven DEF GoesRound, Trapped, Keeps

\* Unless it goes round the walk comes to no certificate twice; if it has ended it has
\* not gone round; and for certificates that are one sound path the order they are
\* presented in does not matter.
THEOREM VerifierInvariance == Spec => []VerifierInv
<1>1. CallInv => ChainClimbs
  <2> SUFFICES ASSUME CallInv PROVE ChainClimbs
    OBVIOUS
  <2>1. /\ call \in Calls /\ chain \in Seq(DOMAIN Given) /\ Climbs(Given, chain)
        /\ Given \in Seq(Certs) /\ Len(Given) \in Nat /\ DOMAIN Given = 1..Len(Given)
        /\ tee \in {"tdx", "sgx", "sevsnp"}
    BY GivenIsAList DEF CallInv, TypeOK, Walking
  <2>2. ASSUME ~GoesRound
        PROVE  Len(chain) <= Len(Given) /\ \A i, j \in DOMAIN chain : chain[i] = chain[j] => i = j
    <3>1. CASE chain = <<>>
      BY <2>1, <3>1
    <3>2. CASE chain # <<>>
      <4>1. tee # "sevsnp" /\ chain[1] = LeafIndex
        BY <3>2 DEF CallInv, Walking
      <4> QED
        BY <2>1, <2>2, <4>1, TrappedGoesRound, ClimbsWithoutRepetition
    <3> QED
      BY <3>1, <3>2
  <2>3. ASSUME NEW i \in 1..(Len(chain) - 1)
        PROVE  chain[i + 1] = First(IssuersOf(chain[i])) /\ chain[i + 1] # chain[i]
    <3>1. i \in DOMAIN chain /\ i + 1 \in DOMAIN chain
      BY <2>1
    <3> QED
      BY <2>1, <3>1, IssuersOfGiven DEF Climbs
  <2>4. ASSUME pc \in {"judge", "done"}, GoesRound PROVE FALSE
    <3>1. tee # "sevsnp" /\ Given # <<>>
      BY <2>1, <2>4 DEF GoesRound
    <3>2. chain # <<>>
      BY <2>1, <2>4, <3>1 DEF CallInv, Walking, Judged
    <3>3. AtTheTop /\ chain[1] = LeafIndex
      BY <2>4, <3>2 DEF CallInv, Walking
    <3> QED
      BY <2>1, <2>4, <3>2, <3>3, GoingRoundIsTrapped, EndedIsNotTrapped DEF AtTheTop
  <2> QED
    BY <2>2, <2>3, <2>4 DEF ChainClimbs
<1>2. CallInv => VerifierInv
  BY <1>1, OrderIsImmaterial DEF CallInv, VerifierInv
<1> QED
  BY <1>2, CallInvariance, PTL
=============================================================================
