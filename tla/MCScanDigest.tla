---------------------------- MODULE MCScanDigest ----------------------------
(***************************************************************************)
(* ScanService with a market that is quiet, has one call, or two.          *)
(***************************************************************************)
EXTENDS ScanService

CONSTANTS a, b

MCMarkets == {{}, {a}, {a, b}}
=============================================================================
