---------------------------- MODULE MCCertCache ----------------------------
EXTENDS CertCache

CONSTANTS h1, h2

\* A VM whose kettle writes, and one whose hostnames change between boots. What
\* the two do meets only in boots, shutdowns and crashes, which both have.
SomeSetups ==
    { [writes |-> TRUE, hosts |-> {<<>>}],
      [writes |-> FALSE, hosts |-> {<<h1>>, <<h1, h2>>}] }
=============================================================================
