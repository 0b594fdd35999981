------------------------------ MODULE MCTopics ------------------------------
(* Topics as TLC checks it. *)
EXTENDS Topics

CONSTANTS rust, arm, risc, one, two, three, four

\* Of the four URLs the last is a publisher's, and the second's summary does
\* not begin with the title.
GoogleNews == {one, two, three}
Echoed     == {one, three}

\* Two listings of one story and two more stories.
Stories == {[title |-> rust, url |-> one], [title |-> rust, url |-> two],
            [title |-> arm, url |-> three], [title |-> risc, url |-> four]}

\* A chain of listings: the first and the last share nothing.
Chain == {[title |-> rust, url |-> one], [title |-> rust, url |-> two],
          [title |-> arm, url |-> two]}

=============================================================================
