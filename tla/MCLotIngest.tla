---------------------------- MODULE MCLotIngest -----------------------------
(* LotIngest with two lots, two URLs and feeds that between them bring new,  *)
(* changed, repeated, absent and malformed rows, in one batch and in two.    *)
EXTENDS LotIngest, TLC

CONSTANTS a, b, u, v

TwoLots == {a, b}
TwoUrls == {u, v}

Valid(l, url) == [lot |-> l, url |-> url, ok |-> TRUE]
Bad(l) == [lot |-> l, url |-> u, ok |-> FALSE]

\* With BatchSize 2 and MaxRows 3: the third valid row opens a second batch,
\* the fourth is beyond the limit.
SomeFeeds == {
  << >>,
  <<Valid(a, u)>>,
  <<Valid(a, v)>>,
  <<Valid(a, u), Valid(b, u)>>,
  <<Valid(b, v), Valid(a, v)>>,
  <<Valid(a, u), Valid(a, v)>>,
  <<Valid(b, u), Bad(a)>>,
  <<Bad(b), Bad(a)>>,
  <<Valid(a, u), Valid(b, u), Valid(a, v)>>,
  <<Valid(b, u), Bad(a), Valid(b, v)>>,
  <<Valid(a, u), Valid(a, v), Valid(a, u), Valid(b, u)>>}
=============================================================================
