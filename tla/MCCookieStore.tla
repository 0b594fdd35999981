--------------------------- MODULE MCCookieStore ---------------------------
(* CookieStore as TLC checks it. *)
EXTENDS CookieStore, TLC

CONSTANTS worker, cron, ts, mine, yours

TwoClients == {worker, cron}
OneClient  == {worker}
NoClient   == {}
OneKey     == {ts}

\* The worker saves twice, the cron job once.
MoreOfTheWorker == [c \in TwoClients |-> IF c = worker THEN 2 ELSE 1]
OneSave         == [c \in OneClient |-> 1]

\* Accounts are alike.
Alike == Permutations({mine, yours})

=============================================================================
