----------------------------- MODULE MCWatchers ------------------------------
(* Watchers with one watcher that the polls and removals share, or one stream. *)
EXTENDS Watchers

\* Streams and file watchers share no state: a behaviour has one or the other.
Apart == (\A s \in Streams : loop[s] = "none") \/ (\A x \in Watched : create[x] = "none")

MCNext == Next /\ Apart'

MCSpec == Init /\ [][MCNext]_vars /\ Fairness
=============================================================================
