------------------------------ MODULE MCKettle ------------------------------
EXTENDS Kettle

CONSTANTS r1, r2, v1, v2

Bare(command, tee) ==
    [command |-> command, at |-> "file", listed |-> TRUE, tee |-> tee, quotes |-> {}, visits |-> {}]

\* Quote requests that share the certificate cache, requests that do not meet,
\* two visits while the application is loaded, and the manifests that differ.
SomeSetups ==
    { [Bare("launch", "sev-snp") EXCEPT !.quotes = {r1, r2}],
      [Bare("start-worker", "tdx") EXCEPT !.quotes = {r1, r2}],
      [Bare("launch", "sgx") EXCEPT !.quotes = {r1}],
      [Bare("start-worker", "sample") EXCEPT !.quotes = {r1}],
      [Bare("launch", "tdx") EXCEPT !.at = "http", !.listed = FALSE, !.visits = {v1, v2}],
      [Bare("launch", "tdx") EXCEPT !.listed = FALSE] }
=============================================================================
