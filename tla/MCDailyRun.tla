----------------------------- MODULE MCDailyRun -----------------------------
(* DailyRun as TLC checks it: the channels in the order of the config file. *)
EXTENDS DailyRun, TLC

CONSTANTS embedded, tech, t1, t2

TwoChannels == <<embedded, tech>>
OneChannel  == <<tech>>
TwoTitles   == {t1, t2}
Symm        == Permutations(TwoTitles)

=============================================================================
