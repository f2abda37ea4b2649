------------------------------ MODULE MCDrain ------------------------------
\* Small instances of the template miner: two words and a number may start a
\* line, two may follow; one line has a tail to cut.
EXTENDS Drain

CONSTANTS a, b, seven, x, y, Wild, Cut

SomeLines == {<<a, x>>, <<b, x>>, <<b, y>>, <<seven, y, y>>}
MoreLines == {<<a, x>>, <<b, x>>, <<b, y>>, <<seven, x>>}
Numbers == {seven}
=============================================================================
