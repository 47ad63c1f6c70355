-------------------------- MODULE MCRankingAoVivo --------------------------
(* One page against several writes, with a channel that retains a single    *)
(* message, so that the receiver lags, and two fetches, so that they answer *)
(* out of order.                                                            *)
EXTENDS RankingAoVivo

CONSTANTS c1, b1, b2

=============================================================================
