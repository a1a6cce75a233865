---- MODULE MCMarketData ----
(***************************************************************************)
(* Small instances of MarketData for TLC.                                  *)
(***************************************************************************)
EXTENDS MarketData

CONSTANTS t1, t2

\* One window that both threads ask for and one that overlaps it, so that a
\* flight meets requests for the same and for another window.
MCLoadWindows == {<<0, 2>>, <<1, 3>>}

\* A request for one recent bar, for the catch-up run.
MCRecentWindow == {<<2, 3>>}

\* A window that starts inside a target bar and takes two chunks, and a small one.
MCFillWindows == {<<1, 4>>, <<0, 2>>}

\* The persistent cache of the command line lists target bar 0.
MCCacheRanges == {<<0, 0>>}

\* Bound: t2 makes its request while t1's is under way and the store still holds
\* at most one source bar.  The fetcher is at work only before that, so that at
\* most two of the three processes overlap.
ActorsBound == left[t2] < MaxRequests => fpc = "sleep"
OverlapBound ==
  left'[t2] < left[t2] =>
    pc[t1] # "idle" /\ Cardinality(source) <= 1 /\ target = {}

MCClients == {t1, t2}
MCOneClient == {t1}
====
