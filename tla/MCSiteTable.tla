----------------------------- MODULE MCSiteTable -----------------------------
(***************************************************************************)
(* Small instances of SiteTable for TLC.                                   *)
(***************************************************************************)
EXTENDS SiteTable, TLC

\* Requests, sites, bags and clients are interchangeable objects.
Symmetry ==
    Permutations(Requests) \cup Permutations(Sites)
        \cup Permutations(Bags) \cup Permutations(Clients)
===============================================================================
