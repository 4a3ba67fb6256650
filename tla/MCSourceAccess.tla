----------------------------- MODULE MCSourceAccess -----------------------------
(* SourceAccess on a small instance: two sources share a scope and report  *)
(* refusals as such; the third, a feed, does not, and asks robots.txt.     *)
EXTENDS SourceAccess

CONSTANTS shared, polite

SourceScopes == <<shared, shared, polite>>
================================================================================
