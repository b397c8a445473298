------------------------------- MODULE MCEngine -------------------------------
(***************************************************************************)
(* Four hosts in three networks: h1 and h2 share an IPv6 prefix, h3 and h4 *)
(* are on their own; the allow list may hold h1 or nothing.  The first     *)
(* filter bans at the second hit, the other at once, and one line matches  *)
(* both.  The table of bans and the tracker hold two networks each.        *)
(***************************************************************************)
EXTENDS Engine, TLC

CONSTANTS h1, h2, h3, h4

Wide == {h1, h2}

MCHosts == {h1, h2, h3, h4}
MCNets == {Wide, {h3}, {h4}}
MCToKey == (h1 :> Wide) @@ (h2 :> Wide) @@ (h3 :> {h3}) @@ (h4 :> {h4})
MCFilters == {1, 2}
MCLines == {2 :> h2, (1 :> h3) @@ (2 :> h3), 2 :> h4}
MCAllowLists == {{}, {{h1}}}
MCMaxRetry == <<2, 1>>
MCFindTime == <<2, 1>>
MCBanTime == <<1, 1>>

\* One network and one filter, for the runs with failures and restarts.
OneNet == {Wide}
OneHost == {h1, h2}
OneToKey == [h \in OneHost |-> Wide]
OneFilter == {1}
OneLine == {1 :> h2}
OneMaxRetry == <<2>>
OneFindTime == <<2>>
OneBanTime == <<1>>
OneTtls == {3}
MCFaults == AllFaults
=============================================================================
